---- MODULE Spec2Model ----
(***************************************************************************)
(* Dungeon-Crawler multiplayer session layer.                              *)
(*                                                                         *)
(* The relay (server.js, src/unnamed/part_000) keeps the global tables     *)
(* `players` and `rooms`; every socket.io handler runs to completion, so   *)
(* each handler is one action.  What a handler emits is recorded in `sent` *)
(* (in emission order, each message with the set of sockets socket.io      *)
(* delivers it to) and the message it processed in `last`.                 *)
(*                                                                         *)
(* The clients' side (GameScene, src/unnamed/part_001) is kept in `scene`   *)
(* and `items`.  Spec is the room registry, SpecUpdates the player updates *)
(* with the reaper's clock, SpecEntities the enemy and item tables,        *)
(* SpecSeed the seed's way into a client's generator and SpecItems a       *)
(* replica applying items tables.                                          *)
(*                                                                         *)
(* Fields of a PlayerState that are only stored and republished (name, y,  *)
(* direction, animation) follow the pattern of x and are not kept.         *)
(*                                                                         *)
(* Time: the relay reads Date.now() only to stamp lastUpdated and, in the  *)
(* reaper, to compute now - lastUpdated.  A PlayerState therefore keeps    *)
(* `idle`, the value of now - lastUpdated as of the reaper's last tick     *)
(* (0 when stamped since), and a tick adds one period to it.  A stamp at   *)
(* t in [k, k+1) periods and a tick at m periods give m - t > 5 exactly    *)
(* when m - k > 5, so nothing is lost by counting in whole periods.        *)
(***************************************************************************)
EXTENDS Integers, Sequences, FiniteSets, TLC

\* ------------------------------------------------------------------ bounds
MaxSockets == 2
MaxSeed == 1
MaxRoster == 2
MaxTimers == 1
MaxItems == 3
MaxFailed == 16
MaxInFlight == 2
MaxReplaced == 1

\* --------------------------------------------------------------- constants
\* setInterval(..., 60 * 1000): the reaper's period, in ms
SweepInterval == 60 * 1000
\* now - lastUpdated > 5 * 60 * 1000
InactivityTimeout == 5 * 60 * 1000

\* handleTransportError: this.connectionState.maxReconnectAttempts = 15
MaxReconnectAttempts == 15
\* io(serverUrl, {reconnectionAttempts: 15, ...})
ReconnectionAttempts == 15

\* socket ids: every connection gets an id of its own, never reused
Sockets == 1..MaxSockets
RoomIds == {"default", "crypt"}
\* Math.floor(Math.random() * 1000000), cut to the first values of the range
Seeds == 0..MaxSeed

VARIABLES
    conn,       \* socket -> "new" (not yet connected) | "up" | "dup" (taken for a duplicate) | "gone"
    subs,       \* socket -> the socket.io rooms it has joined (socket.join/leave)
    players,    \* const players = {}: socket id -> PlayerState
    rooms,      \* let rooms = {}: room id -> {players, seed, enemies, items}
    timers,     \* socket -> pending setTimeout callbacks of its playerAttack handler
    activeConnections, \* const activeConnections = new Set(): the client ids of accepted connections
    headers,    \* socket -> its handshake's x-client-id header (0: none)
    sent,       \* the messages emitted by the last handler, in order
    last,       \* the event the last handler processed
    scene,      \* socket -> its client's GameScene: currentSeed and the seed of this.dungeon
    items,      \* this.items.getChildren() of one replica's GameScene, in order
    service,    \* one client's MultiplayerService: connectionState, timers, and its socket's manager
    net,        \* the relay's messages on their way to the clients: socket -> queue
    client,     \* socket -> its client's MultiplayerService: connected, isHost, otherPlayers
    build,      \* which of the repository's two MultiplayerService files the clients run
    enemies,    \* this.enemies of the host's and of a replica's GameScene, and the
                \* tables on their way from the one to the other
    collectedSeen \* history: the ids of the items the replica destroyed because a
                \* message said collected

vars == <<conn, subs, players, rooms, timers, activeConnections, headers, sent, last,
         scene, items, service, net, client, build, enemies, collectedSeen>>
\* the state kept by the clients' GameScene and MultiplayerService
clientVars == <<scene, items, service, client, build, enemies, collectedSeen>>

hostVars == <<net, client, build, enemies, collectedSeen>>
\* the state kept by the relay, with the messages of its last handler
relayVars == <<conn, subs, players, rooms, timers, activeConnections, headers, sent>>

\* ------------------------------------------------------------- JS helpers
\* null / undefined where a number is expected
Null == 0 - 1
\* a || b for numbers: 0 (and a missing field, sent as 0) is falsy
OrNum(a, b) == IF a = 0 THEN b ELSE a
\* a || b for strings: "" (and a missing field, sent as "") is falsy
OrStr(a, b) == IF a = "" THEN b ELSE a

\* arr.indexOf(v): the first index holding v, 0 when there is none (JS: -1)
IndexOf(arr, v) ==
    IF \E i \in 1..Len(arr) : arr[i] = v
    THEN CHOOSE i \in 1..Len(arr) : arr[i] = v /\ \A j \in 1..(i - 1) : arr[j] # v
    ELSE 0

\* const i = arr.indexOf(v); if (i !== -1) arr.splice(i, 1);
RemoveFirst(arr, v) ==
    LET i == IndexOf(arr, v)
    IN  IF i = 0 THEN arr
        ELSE [k \in 1..(Len(arr) - 1) |-> IF k < i THEN arr[k] ELSE arr[k + 1]]

\* a bug the listing claim must notice: the key is not deleted
KeepKey(obj, k) == obj

\* delete obj[k]
Delete(obj, k) == [x \in (DOMAIN obj) \ {k} |-> obj[x]]
\* a bug the ownership claim must notice: the assignment drops the other keys
PutAlone(obj, k, v) == [x \in {k} |-> v]

\* obj[k] = v
Put(obj, k, v) == [x \in (DOMAIN obj) \cup {k} |-> IF x = k THEN v ELSE obj[x]]

Msg(ev, to, data) == [ev |-> ev, to |-> to, data |-> data]
In(ev, from, data) == [ev |-> ev, from |-> from, data |-> data]

\* io.to(room): every connected socket that has joined the socket.io room
IoTo(sb, cn, room) == {s \in Sockets : cn[s] = "up" /\ room \in sb[s]}
\* socket.to(room): the same, without the sending socket
SocketTo(sb, cn, room, c) == IoTo(sb, cn, room) \ {c}

\* the room object created on first use
NewRoom(seed) == [players |-> <<>>, seed |-> seed, enemies |-> <<>>, items |-> <<>>]

\* a bug the seed claims must notice: the seed is rolled again on every join
EnsureRoomReroll(rms, room, seed) ==
    IF room \in DOMAIN rms THEN [rms EXCEPT ![room].seed = seed]
    ELSE Put(rms, room, NewRoom(seed))

\* if (!rooms[room]) rooms[room] = {players: [], seed: ..., enemies: {}, items: {}}
EnsureRoom(rms, room, seed) ==
    IF room \in DOMAIN rms THEN rms ELSE Put(rms, room, NewRoom(seed))

\* the array without its k-th element: Phaser's Group removes a destroyed
\* child from children.entries, the array getChildren() returns
RemoveAt(arr, k) == [i \in 1..(Len(arr) - 1) |-> IF i < k THEN arr[i] ELSE arr[i + 1]]

\* the players whose PlayerState names the room
Members(room) == {c \in DOMAIN players : players[c].room = room}

\* new MultiplayerService(): connectionState and the timers.  `manager` is the
\* state of the socket's socket.io Manager ("none" before init) and `backoff`
\* its attempt counter; `viaReconnect` tells an attempt the manager started
\* from one started by socket.connect().  delay, prevDelay and failed record
\* the last two delays handleTransportError scheduled and the attempts that
\* failed since the last successful connect.  syncHandles tells which of the four
\* timer fields hold a handle and syncIntervals how many setInterval timers of
\* each kind are scheduled; restarted tells that the last startSyncIntervals
\* found handles to clear.  emitted is the message the last call put on the
\* socket and first the first message emitted since the socket was last
\* told to connect.  replaced holds the managers of the sockets a later init
\* has replaced.
SyncTimers == {"updateTimer", "enemySyncTimer", "itemSyncTimer", "fullSyncTimer"}

NewService ==
    [connected |-> FALSE, reconnecting |-> FALSE, reconnectAttempts |-> 0,
     maxReconnectAttempts |-> 10, offlineMode |-> FALSE, playerId |-> "null",
     reconnectTimer |-> 0, offlineModeReconnectTimer |-> FALSE,
     manager |-> "none", backoff |-> 0, viaReconnect |-> FALSE,
     delay |-> 0, prevDelay |-> 0, failed |-> 0,
     isConnecting |-> FALSE,
     syncHandles |-> [t \in SyncTimers |-> FALSE],
     syncIntervals |-> [t \in SyncTimers |-> 0],
     restarted |-> FALSE, emitted |-> "none", first |-> "none",
     replaced |-> <<>>,
     transports |-> "none", used |-> "none", usedBefore |-> "none",
     retryFirst |-> "none", retryBefore |-> "none"]

\* the events of the relay a MultiplayerService keeps its otherPlayers and its
\* host flag from
PlayerEvents == {"currentPlayers", "newPlayer", "playerDisconnected", "hostStatus"}

\* no client is attached: the relay's messages are not followed to a receiver
NoNet == [on |-> FALSE, events |-> {}, q |-> [s \in Sockets |-> <<>>]]
\* the clients are attached: every socket has an empty queue, and the
\* messages followed to their listeners are those of PlayerEvents
EmptyNet == [on |-> TRUE, events |-> PlayerEvents, q |-> [s \in Sockets |-> <<>>]]
\* the same where the messages followed are the relay's dungeonSeed
SeedNet == [on |-> TRUE, events |-> {"dungeonSeed"}, q |-> [s \in Sockets |-> <<>>]]

\* socket.emit / socket.to(room).emit / io.to(room).emit: each message joins
\* the queue of every socket it is addressed to, in the order of emission
Route(n, out) ==
    IF n.on
    THEN [n EXCEPT !.q = [s \in Sockets |->
             LET ForMe(m) == s \in m.to /\ m.ev \in n.events
             IN  n.q[s] \o SelectSeq(out, ForMe)]]
    ELSE n

\* new MultiplayerService(): connectionState.connected, connectionState.isHost
\* (never assigned by the constructor, so not true), otherPlayers; `joined`
\* tells that the 'connect' handler has emitted playerJoin, `emitted` is
\* the message the last sync call put on the socket and `joins` counts the
\* playerJoin messages the client has emitted
NewClient ==
    [connected |-> FALSE, isHost |-> FALSE, otherPlayers |-> {}, joined |-> FALSE,
     emitted |-> "none", joins |-> 0]

Builds == {"legacy", "current"}

\* this.enemies = [] of both scenes, and no table sent
NoEnemies == [host |-> <<>>, replica |-> <<>>, inflight |-> <<>>]

Init ==
    /\ conn = [s \in Sockets |-> "new"]
    /\ subs = [s \in Sockets |-> {}]
    /\ players = <<>>
    /\ rooms = <<>>
    /\ timers = [s \in Sockets |-> 0]
    /\ activeConnections = {}
    /\ headers = [s \in Sockets |-> 0]
    /\ sent = <<>>
    /\ last = In("start", 0, 0)
    /\ scene = [s \in Sockets |-> [currentSeed |-> Null, dungeonSeed |-> Null]]
    /\ items = <<>>
    /\ service = NewService
    /\ net = NoNet
    /\ client = [s \in Sockets |-> NewClient]
    /\ build = "current"
    /\ enemies = NoEnemies
    /\ collectedSeen = {}

\* a bug the duplicate claim must notice: no connection is taken for a duplicate
NeverDuplicate(active, clientId) == FALSE

\* activeConnections.has(clientId)
IsDuplicate(active, clientId) == clientId \in active

\* const clientId = socket.handshake.headers['x-client-id'] || socket.id
ClientId(hd, c) == OrNum(hd[c], c)

\* io.on('connection') for a socket whose handshake carries header h: a
\* duplicate of an active client id is sent connectionStatus and gets no
\* handlers ("dup"), any other socket has its handlers registered ("up")
Connect(c, h) ==
    /\ conn[c] = "new"
    /\ \A s \in Sockets : s < c => conn[s] # "new"
    /\ headers' = [headers EXCEPT ![c] = h]
    /\ IF IsDuplicate(activeConnections, ClientId(headers', c))
       THEN /\ conn' = [conn EXCEPT ![c] = "dup"]
            /\ sent' = << Msg("connectionStatus", {c}, [status |-> "duplicate"]) >>
            /\ UNCHANGED activeConnections
       ELSE /\ conn' = [conn EXCEPT ![c] = "up"]
            /\ sent' = <<>>
            /\ activeConnections' = activeConnections \cup {ClientId(headers', c)}
    /\ last' = In("connection", c, h)
    /\ UNCHANGED <<subs, players, rooms, timers>>
    /\ net' = Route(net, sent')
    /\ UNCHANGED clientVars

\* a message on a socket that was taken for a duplicate: it has no listeners
Dropped(c, ev, d) ==
    /\ conn[c] = "dup"
    /\ sent' = <<>>
    /\ last' = In(ev, c, d)
    /\ UNCHANGED <<conn, subs, players, rooms, timers, activeConnections, headers>>
    /\ net' = Route(net, sent')
    /\ UNCHANGED clientVars

\* socket.on('playerJoin')
PlayerJoin(c, d) ==
    /\ conn[c] = "up"
    /\ \E seed \in Seeds :
        LET room == OrStr(d.room, "default")
            p == [id |-> c,
                  x |-> OrNum(d.x, 100),
                  health |-> OrNum(d.health, 100),
                  room |-> room,
                  isAttacking |-> FALSE,
                  idle |-> 0]
            players1 == Put(players, c, p)
            subs1 == [subs EXCEPT ![c] = @ \cup {room}]
            rooms1 == EnsureRoom(rooms, room, seed)
            rooms2 == [rooms1 EXCEPT ![room].players = Append(@, c)]
        IN  /\ Len(rooms2[room].players) <= MaxRoster
            /\ players' = players1
            /\ subs' = subs1
            /\ rooms' = rooms2
            /\ sent' = << Msg("currentPlayers", {c}, players1),
                          Msg("dungeonSeed", {c}, rooms2[room].seed),
                          Msg("currentEnemies", {c}, rooms2[room].enemies),
                          Msg("currentItems", {c}, rooms2[room].items),
                          Msg("newPlayer", SocketTo(subs1, conn, room, c), p) >>
    /\ last' = In("playerJoin", c, d)
    /\ UNCHANGED <<conn, timers>>
    /\ UNCHANGED <<activeConnections, headers>>
    /\ net' = Route(net, sent')
    /\ UNCHANGED clientVars

\* socket.on('playerMovement')
PlayerMovement(c, d) ==
    /\ conn[c] = "up"
    /\ IF c \in DOMAIN players
       THEN LET p == [players[c] EXCEPT !.x = d.x, !.idle = 0]
            IN  /\ players' = [players EXCEPT ![c] = p]
                /\ sent' = << Msg("playerMoved", SocketTo(subs, conn, p.room, c), p) >>
       ELSE /\ sent' = <<>>
            /\ UNCHANGED players
    /\ last' = In("playerMovement", c, d)
    /\ UNCHANGED <<conn, subs, rooms, timers>>
    /\ UNCHANGED <<activeConnections, headers>>
    /\ net' = Route(net, sent')
    /\ UNCHANGED clientVars

\* socket.on('playerAttack'); attackDirection is stored like x and not kept
PlayerAttack(c, d) ==
    /\ conn[c] = "up"
    /\ IF c \in DOMAIN players
       THEN /\ timers[c] < MaxTimers
            /\ players' = [players EXCEPT ![c].isAttacking = TRUE]
            /\ sent' = << Msg("playerAttacked", SocketTo(subs, conn, players[c].room, c),
                              [id |-> c, x |-> players[c].x]) >>
            /\ timers' = [timers EXCEPT ![c] = @ + 1]
       ELSE /\ sent' = <<>>
            /\ UNCHANGED <<players, timers>>
    /\ last' = In("playerAttack", c, d)
    /\ UNCHANGED <<conn, subs, rooms>>
    /\ UNCHANGED <<activeConnections, headers>>
    /\ net' = Route(net, sent')
    /\ UNCHANGED clientVars

\* setTimeout(() => { if (players[socket.id]) ... isAttacking = false }, 300)
AttackReset(c) ==
    /\ timers[c] > 0
    /\ timers' = [timers EXCEPT ![c] = @ - 1]
    /\ players' = IF c \in DOMAIN players
                  THEN [players EXCEPT ![c].isAttacking = FALSE]
                  ELSE players
    /\ sent' = <<>>
    /\ last' = In("attackReset", c, 0)
    /\ UNCHANGED <<conn, subs, rooms>>
    /\ UNCHANGED <<activeConnections, headers>>
    /\ net' = Route(net, sent')
    /\ UNCHANGED clientVars

\* socket.on('playerDamage')
PlayerDamage(c, d) ==
    /\ conn[c] = "up"
    /\ IF c \in DOMAIN players
       THEN LET p == [players[c] EXCEPT !.health = d.health]
                to == IoTo(subs, conn, p.room)
            IN  /\ players' = [players EXCEPT ![c] = p]
                /\ sent' = << Msg("playerHealthUpdate", to, [id |-> c, health |-> p.health]) >>
                           \o (IF p.health <= 0
                               THEN << Msg("playerDied", to, [id |-> c]) >>
                               ELSE <<>>)
       ELSE /\ sent' = <<>>
            /\ UNCHANGED players
    /\ last' = In("playerDamage", c, d)
    /\ UNCHANGED <<conn, subs, rooms, timers>>
    /\ UNCHANGED <<activeConnections, headers>>
    /\ net' = Route(net, sent')
    /\ UNCHANGED clientVars

\* socket.on('playerRespawn')
PlayerRespawn(c, d) ==
    /\ conn[c] = "up"
    /\ IF c \in DOMAIN players
       THEN LET p == [players[c] EXCEPT !.x = d.x, !.health = 100]
            IN  /\ players' = [players EXCEPT ![c] = p]
                /\ sent' = << Msg("playerRespawned", IoTo(subs, conn, p.room),
                                  [id |-> c, x |-> p.x, health |-> p.health]) >>
       ELSE /\ sent' = <<>>
            /\ UNCHANGED players
    /\ last' = In("playerRespawn", c, d)
    /\ UNCHANGED <<conn, subs, rooms, timers>>
    /\ UNCHANGED <<activeConnections, headers>>
    /\ net' = Route(net, sent')
    /\ UNCHANGED clientVars

\* {...a, ...b}: the fields of b over those of a
Spread(a, b) == [f \in (DOMAIN a) \cup (DOMAIN b) |-> IF f \in DOMAIN b THEN b[f] ELSE a[f]]

\* the upsert of socket.on('enemyUpdate') and socket.on('itemUpdate')
Upsert(table, d) ==
    IF d.id \notin DOMAIN table THEN Put(table, d.id, d)
    ELSE [table EXCEPT ![d.id] = Spread(@, d)]

\* a bug the table claim must notice: the old table is kept and written over
StoreEnemiesMerge(old, enemiesData) ==
    [id \in (DOMAIN old) \cup (DOMAIN enemiesData)
        |-> IF id \in DOMAIN enemiesData THEN enemiesData[id] ELSE old[id]]

\* rooms[room].enemies = {}; Object.values(enemiesData).forEach(e => {
\*   if (e.id) rooms[room].enemies[e.id] = e })
StoreEnemies(old, enemiesData) ==
    [id \in {enemiesData[k].id : k \in {j \in DOMAIN enemiesData : enemiesData[j].id # ""}}
        |-> LET k == CHOOSE j \in DOMAIN enemiesData : enemiesData[j].id = id
            IN  enemiesData[k]]

\* a bug the claim about unknown senders must notice: a sender without a
\* PlayerState is taken for a member of the default room
RoomOfAnyone(tbl, c) == IF c \in DOMAIN tbl THEN tbl[c].room ELSE "default"

\* players[socket.id] && players[socket.id].room: the room of the sender's
\* PlayerState, falsy ("") when it has none
RoomOfPlayer(tbl, c) == IF c \in DOMAIN tbl THEN tbl[c].room ELSE ""

\* socket.on('enemyUpdate'); rooms[room] is read without a check
EnemyUpdate(c, d) ==
    /\ conn[c] = "up"
    /\ IF RoomOfPlayer(players, c) # ""
       THEN LET room == RoomOfPlayer(players, c)
            IN  IF room \in DOMAIN rooms
                THEN LET t == Upsert(rooms[room].enemies, d)
                     IN  /\ rooms' = [rooms EXCEPT ![room].enemies = t]
                         /\ sent' = << Msg("enemyUpdated", SocketTo(subs, conn, room, c), t[d.id]) >>
                         /\ last' = In("enemyUpdate", c, d)
                ELSE /\ sent' = <<>>
                     /\ last' = In("TypeError", c, d)
                     /\ UNCHANGED rooms
       ELSE /\ sent' = <<>>
            /\ last' = In("enemyUpdate", c, d)
            /\ UNCHANGED rooms
    /\ UNCHANGED <<conn, subs, players, timers>>
    /\ UNCHANGED <<activeConnections, headers>>
    /\ net' = Route(net, sent')
    /\ UNCHANGED clientVars

\* socket.on('syncEnemies')
SyncEnemies(c, d) ==
    /\ conn[c] = "up"
    /\ IF /\ RoomOfPlayer(players, c) # ""
          /\ RoomOfPlayer(players, c) \in DOMAIN rooms
       THEN LET room == RoomOfPlayer(players, c)
                t == StoreEnemies(rooms[room].enemies, d)
            IN  /\ rooms' = [rooms EXCEPT ![room].enemies = t]
                /\ sent' = << Msg("currentEnemies", SocketTo(subs, conn, room, c), t) >>
       ELSE /\ sent' = <<>>
            /\ UNCHANGED rooms
    /\ last' = In("syncEnemies", c, d)
    /\ UNCHANGED <<conn, subs, players, timers>>
    /\ UNCHANGED <<activeConnections, headers>>
    /\ net' = Route(net, sent')
    /\ UNCHANGED clientVars

\* socket.on('itemUpdate'); rooms[room] is read without a check
ItemUpdate(c, d) ==
    /\ conn[c] = "up"
    /\ IF RoomOfPlayer(players, c) # ""
       THEN LET room == RoomOfPlayer(players, c)
            IN  IF room \in DOMAIN rooms
                THEN LET t == Upsert(rooms[room].items, d)
                     IN  /\ rooms' = [rooms EXCEPT ![room].items = t]
                         /\ sent' = << Msg("itemUpdated", IoTo(subs, conn, room), t[d.id]) >>
                         /\ last' = In("itemUpdate", c, d)
                ELSE /\ sent' = <<>>
                     /\ last' = In("TypeError", c, d)
                     /\ UNCHANGED rooms
       ELSE /\ sent' = <<>>
            /\ last' = In("itemUpdate", c, d)
            /\ UNCHANGED rooms
    /\ UNCHANGED <<conn, subs, players, timers>>
    /\ UNCHANGED <<activeConnections, headers>>
    /\ net' = Route(net, sent')
    /\ UNCHANGED clientVars

\* socket.on('itemPickup'); rooms[room] is read without a check
ItemPickup(c, d) ==
    /\ conn[c] = "up"
    /\ IF RoomOfPlayer(players, c) # ""
       THEN LET room == RoomOfPlayer(players, c)
            IN  IF room \in DOMAIN rooms
                THEN /\ IF d.id \in DOMAIN rooms[room].items
                        THEN /\ rooms' = [rooms EXCEPT ![room].items = Delete(@, d.id)]
                             /\ sent' = << Msg("itemRemoved", IoTo(subs, conn, room),
                                               [id |-> d.id, playerId |-> c]) >>
                        ELSE /\ sent' = <<>>
                             /\ UNCHANGED rooms
                     /\ last' = In("itemPickup", c, d)
                ELSE /\ sent' = <<>>
                     /\ last' = In("TypeError", c, d)
                     /\ UNCHANGED rooms
       ELSE /\ sent' = <<>>
            /\ last' = In("itemPickup", c, d)
            /\ UNCHANGED rooms
    /\ UNCHANGED <<conn, subs, players, timers>>
    /\ UNCHANGED <<activeConnections, headers>>
    /\ net' = Route(net, sent')
    /\ UNCHANGED clientVars

\* an event the relay registers no listener for (syncItems, syncGameState,
\* requestFullSync): socket.io drops it
Unhandled(c, ev, d) ==
    /\ conn[c] = "up"
    /\ sent' = <<>>
    /\ last' = In(ev, c, d)
    /\ UNCHANGED <<conn, subs, players, rooms, timers>>
    /\ UNCHANGED <<activeConnections, headers>>
    /\ net' = Route(net, sent')
    /\ UNCHANGED clientVars

\* socket.on('changeRoom')
ChangeRoom(c, d) ==
    /\ conn[c] = "up"
    /\ IF c \in DOMAIN players
       THEN \E seed \in Seeds :
            LET oldRoom == players[c].room
                newRoom == d.room
                hadOld == oldRoom \in DOMAIN rooms
                rooms1 == IF hadOld
                          THEN [rooms EXCEPT ![oldRoom].players = RemoveFirst(@, c)]
                          ELSE rooms
                subs1 == IF hadOld THEN [subs EXCEPT ![c] = @ \ {oldRoom}] ELSE subs
                left == IF hadOld
                        THEN << Msg("playerLeft", SocketTo(subs1, conn, oldRoom, c), [id |-> c]) >>
                        ELSE <<>>
                subs2 == [subs1 EXCEPT ![c] = @ \cup {newRoom}]
                p == [players[c] EXCEPT !.room = newRoom]
                players1 == [players EXCEPT ![c] = p]
                rooms2 == EnsureRoom(rooms1, newRoom, seed)
                rooms3 == [rooms2 EXCEPT ![newRoom].players = Append(@, c)]
                roomPlayers == [i \in {j \in DOMAIN players1 :
                                         \E k \in 1..Len(rooms3[newRoom].players) :
                                             rooms3[newRoom].players[k] = j}
                                |-> players1[i]]
            IN  /\ Len(rooms3[newRoom].players) <= MaxRoster
                /\ players' = players1
                /\ subs' = subs2
                /\ rooms' = rooms3
                /\ sent' = left \o
                           << Msg("dungeonSeed", {c}, rooms3[newRoom].seed),
                              Msg("roomPlayers", {c}, roomPlayers),
                              Msg("currentEnemies", {c}, rooms3[newRoom].enemies),
                              Msg("currentItems", {c}, rooms3[newRoom].items),
                              Msg("newPlayer", SocketTo(subs2, conn, newRoom, c), p) >>
       ELSE /\ sent' = <<>>
            /\ UNCHANGED <<players, subs, rooms>>
    /\ last' = In("changeRoom", c, d)
    /\ UNCHANGED <<conn, timers>>
    /\ UNCHANGED <<activeConnections, headers>>
    /\ net' = Route(net, sent')
    /\ UNCHANGED clientVars

\* the removal both socket.on('disconnect') and the reaper perform for player c:
\* the registry and the messages after it
Evict(st, c) ==
    LET room == st.players[c].room
        rooms1 == IF room \in DOMAIN st.rooms
                  THEN [st.rooms EXCEPT ![room].players = RemoveFirst(@, c)]
                  ELSE st.rooms
        rooms2 == IF room \in DOMAIN rooms1 /\ Len(rooms1[room].players) = 0
                  THEN Delete(rooms1, room)
                  ELSE rooms1
    IN  [st EXCEPT !.players = Delete(st.players, c),
                   !.rooms = rooms2,
                   !.sent = Append(st.sent, Msg("playerDisconnected",
                                                IoTo(st.subs, st.conn, room), [id |-> c]))]

\* socket.on('disconnect'): socket.io has already taken the socket out of its
\* rooms.  A socket taken for a duplicate has no 'disconnect' handler.
Disconnect(c) ==
    /\ conn[c] \in {"up", "dup"}
    /\ LET conn1 == [conn EXCEPT ![c] = "gone"]
           subs1 == [subs EXCEPT ![c] = {}]
           st == [players |-> players, rooms |-> rooms, sent |-> <<>>,
                  subs |-> subs1, conn |-> conn1]
           out == IF conn[c] = "up" /\ c \in DOMAIN players THEN Evict(st, c) ELSE st
       IN  /\ conn' = conn1
           /\ subs' = subs1
           /\ players' = out.players
           /\ rooms' = out.rooms
           /\ sent' = out.sent
    /\ activeConnections' = IF conn[c] = "up"
                            THEN activeConnections \ {ClientId(headers, c)}
                            ELSE activeConnections
    /\ last' = In("disconnect", c, 0)
    /\ UNCHANGED <<timers, headers>>
    /\ net' = Route(net, sent')
    /\ UNCHANGED clientVars

\* Object.keys(players).forEach(...) of the reaper, over the ids from `c` on:
\* now - players[id].lastUpdated > 5 * 60 * 1000
RECURSIVE SweepFrom(_, _)
SweepFrom(st, c) ==
    IF c > MaxSockets THEN st
    ELSE IF c \in DOMAIN st.players /\ st.players[c].idle > InactivityTimeout
         THEN SweepFrom(Evict(st, c), c + 1)
         ELSE SweepFrom(st, c + 1)

\* setInterval(() => {...}, 60 * 1000): the inactivity reaper.  One period has
\* passed since the last tick, so every player is that much older.
Sweep ==
    /\ LET aged == [c \in DOMAIN players |->
                       [players[c] EXCEPT !.idle = @ + SweepInterval]]
           st == [players |-> aged, rooms |-> rooms, sent |-> <<>>,
                  subs |-> subs, conn |-> conn]
           out == SweepFrom(st, 1)
       IN  /\ players' = out.players
           /\ rooms' = out.rooms
           /\ sent' = out.sent
    /\ last' = In("sweep", 0, 0)
    /\ UNCHANGED <<conn, subs, timers>>
    /\ UNCHANGED <<activeConnections, headers>>
    /\ net' = Route(net, sent')
    /\ UNCHANGED clientVars

\* The same reaper where the players' ages are not tracked: at this tick
\* exactly the players in `stale` have been silent for more than the timeout
\* (any set of players can be, depending on when each last sent a movement).
ReaperTick(stale) ==
    /\ stale \subseteq DOMAIN players
    /\ LET aged == [c \in DOMAIN players |->
                       IF c \in stale
                       THEN [players[c] EXCEPT !.idle = InactivityTimeout + SweepInterval]
                       ELSE players[c]]
           st == [players |-> aged, rooms |-> rooms, sent |-> <<>>,
                  subs |-> subs, conn |-> conn]
           out == SweepFrom(st, 1)
       IN  /\ players' = out.players
           /\ rooms' = out.rooms
           /\ sent' = out.sent
    /\ last' = In("sweep", 0, 0)
    /\ UNCHANGED <<conn, subs, timers>>
    /\ UNCHANGED <<activeConnections, headers>>
    /\ net' = Route(net, sent')
    /\ UNCHANGED clientVars

\* ------------------------------------------- the client's connection state
Min(a, b) == IF a < b THEN a ELSE b

\* Math.min(1000 * Math.pow(2, reconnectAttempts - 1), 10000)
BackoffDelay(attempts) == Min(1000 * 2 ^ (attempts - 1), 10000)

\* MultiplayerService.handleTransportError(): the pending timer is cancelled;
\* below the maximum the counter is incremented and a timer set for the
\* delay, at the maximum 'offlineMode' is triggered, an event nothing has
\* registered a handler for
HandleTransportError(s) ==
    LET s1 == [s EXCEPT !.reconnectTimer = 0, !.maxReconnectAttempts = MaxReconnectAttempts]
    IN  IF s1.reconnectAttempts < s1.maxReconnectAttempts
        THEN LET n == s1.reconnectAttempts + 1
             IN  [s1 EXCEPT !.reconnectAttempts = n,
                            !.reconnectTimer = BackoffDelay(n),
                            !.prevDelay = s.delay,
                            !.delay = BackoffDelay(n)]
        ELSE s1

\* Manager.reconnect(): past reconnectionAttempts it gives up with
\* reconnect_failed (handler: reconnecting = false), else it counts the
\* attempt and waits for its delay
ManagerReconnect(s) ==
    IF s.backoff >= ReconnectionAttempts
    THEN [s EXCEPT !.manager = "closed", !.backoff = 0, !.viaReconnect = FALSE,
                   !.reconnecting = FALSE]
    ELSE [s EXCEPT !.manager = "waiting", !.backoff = @ + 1, !.viaReconnect = TRUE]

\* a bug the timer claim must notice: the handles are forgotten, not cleared
ForgetSyncTimers(s) == [s EXCEPT !.syncHandles = [t \in SyncTimers |-> FALSE]]

\* MultiplayerService.clearSyncTimers(): clearInterval for every field that
\* holds a handle, then the fields are null
ClearSyncTimers(s) ==
    [s EXCEPT !.syncIntervals = [t \in SyncTimers |->
                                    IF s.syncHandles[t] THEN @[t] - 1 ELSE @[t]],
              !.syncHandles = [t \in SyncTimers |-> FALSE]]

\* MultiplayerService.startSyncIntervals(gameScene): clearSyncTimers(), then
\* one setInterval for each of the four fields
StartSyncIntervals(s) ==
    LET c == ClearSyncTimers(s)
    IN  [c EXCEPT !.syncIntervals = [t \in SyncTimers |-> @[t] + 1],
                  !.syncHandles = [t \in SyncTimers |-> TRUE],
                  !.restarted = \E t \in SyncTimers : s.syncHandles[t]]

\* a bug the emission claim must notice: the emit methods do not test connected
MayEmitAlways(s) == TRUE

\* if (this.socket && this.connectionState.connected), the test of joinGame,
\* updateMovement, playerAttack, playerDamage, playerRespawn, updateEnemy,
\* updateItem, pickupItem, changeRoom and requestFullSync
MayEmitGame(s) == s.manager # "none" /\ s.connected

\* this.socket.emit(msg) under that test
Emit(s, msg) ==
    IF MayEmitGame(s)
    THEN [s EXCEPT !.emitted = msg, !.first = IF @ = "none" THEN msg ELSE @]
    ELSE [s EXCEPT !.emitted = "none"]

\* the retry's new socket.io.opts.transports: ['websocket', 'polling'] if the
\* current list starts with 'polling', else ['polling', 'websocket']; the list
\* is modelled by its first entry
SwapTransports(first) == IF first = "polling" THEN "websocket" ELSE "polling"

\* history: a connection attempt starts with the transport order `first`
Attempt(s, first) == [s EXCEPT !.usedBefore = s.used, !.used = first]

\* MultiplayerService.init(): the socket is created with transports
\* ['websocket', 'polling'] and, 500 ms later, connected
ServiceInit ==
    /\ service.manager = "none"
    /\ service' = Attempt([service EXCEPT !.manager = "opening", !.isConnecting = TRUE,
                                          !.transports = "websocket"],
                          "websocket")
    /\ last' = In("init", 0, 0)
    /\ UNCHANGED <<relayVars, scene, items>>
    /\ UNCHANGED hostVars

\* the transport opens.  After an attempt of the manager this is its
\* 'reconnect' event: reconnecting = false, connected = true
EngineOpen ==
    /\ service.manager = "opening"
    /\ service' = IF service.viaReconnect
                  THEN [service EXCEPT !.manager = "handshake", !.backoff = 0,
                                       !.reconnecting = FALSE, !.connected = TRUE]
                  ELSE [service EXCEPT !.manager = "handshake"]
    /\ last' = IF service.viaReconnect THEN In("reconnect", 0, 0) ELSE last
    /\ UNCHANGED <<relayVars, scene, items>>
    /\ UNCHANGED hostVars

\* the 'connect' listener: connectionState is set, the retry timer cleared,
\* joinGame(initialPlayerData) emits playerJoin, and triggerEvent('connect')
\* runs GameScene.handleConnect: startSyncIntervals(this), requestFullSync()
OnConnect(s) ==
    LET s1 == [s EXCEPT !.connected = TRUE, !.isConnecting = FALSE,
                        !.reconnecting = FALSE,
                        !.playerId = "socket", !.reconnectTimer = 0,
                        !.reconnectAttempts = 0,
                        !.delay = 0, !.prevDelay = 0, !.failed = 0]
    IN  Emit(StartSyncIntervals(Emit(s1, "playerJoin")), "requestFullSync")

\* socket.on('connect'): the namespace is joined
SocketConnect ==
    /\ service.manager = "handshake"
    /\ service' = OnConnect([service EXCEPT !.manager = "open", !.viaReconnect = FALSE])
    /\ last' = In("connect", 0, 0)
    /\ UNCHANGED <<relayVars, scene, items>>
    /\ UNCHANGED hostVars

\* socket.on('disconnect', reason) with reason 'transport close': the custom
\* retry starts, and the manager starts its own reconnection
TransportClose ==
    /\ service.manager = "open"
    /\ service' = ManagerReconnect(HandleTransportError(
                      [service EXCEPT !.connected = FALSE, !.isConnecting = FALSE,
                                      !.backoff = 0, !.first = "none"]))
    /\ last' = In("disconnect", 0, "transport close")
    /\ UNCHANGED <<relayVars, scene, items>>
    /\ UNCHANGED hostVars

\* socket.io.on('reconnect_attempt', attemptNumber): the manager's delay is over
ReconnectAttempt ==
    /\ service.manager = "waiting"
    /\ service' = Attempt([service EXCEPT !.manager = "opening", !.reconnecting = TRUE,
                                          !.reconnectAttempts = service.backoff],
                          service.transports)
    /\ last' = In("reconnect_attempt", 0, service.backoff)
    /\ UNCHANGED <<relayVars, scene, items>>
    /\ UNCHANGED hostVars

\* socket.on('connect_error') with a TransportError: the attempt has failed.
\* The manager goes on with its own reconnection after an attempt of its
\* own, and starts it after a failed socket.connect() if it has counted none.
ConnectError ==
    /\ service.manager = "opening"
    /\ service.failed < MaxFailed
    /\ LET s1 == HandleTransportError([service EXCEPT !.failed = @ + 1,
                                                      !.isConnecting = FALSE])
       IN  service' = IF service.viaReconnect \/ service.backoff = 0
                      THEN ManagerReconnect(s1)
                      ELSE [s1 EXCEPT !.manager = "closed"]
    /\ last' = In("connect_error", 0, "TransportError")
    /\ UNCHANGED <<relayVars, scene, items>>
    /\ UNCHANGED hostVars

\* the callback of this.reconnectTimer: if not connected, socket.disconnect()
\* (the manager is closed and its counter reset), the order of
\* socket.io.opts.transports is swapped, and socket.connect(); last.data tells
\* whether the retry was executed
ReconnectTimerFires ==
    /\ service.reconnectTimer # 0
    /\ service' = IF service.connected
                  THEN [service EXCEPT !.reconnectTimer = 0]
                  ELSE LET order == SwapTransports(service.transports)
                       IN  Attempt([service EXCEPT
                                       !.reconnectTimer = 0, !.manager = "opening",
                                       !.backoff = 0, !.viaReconnect = FALSE,
                                       !.first = "none",
                                       !.transports = order,
                                       !.retryBefore = service.retryFirst,
                                       !.retryFirst = order],
                                   order)
    /\ last' = In("reconnectTimer", 0, IF service.connected THEN "skipped" ELSE "retry")
    /\ UNCHANGED <<relayVars, scene, items>>
    /\ UNCHANGED hostVars

\* the states of a manager in which its socket is being connected
Attempting == {"waiting", "opening", "handshake"}

\* MultiplayerService.init() called again, as GameScene.create does when the
\* scene restarts for a room change or is started from the menu after the
\* player has died: nothing if isConnecting or connected, else this.socket is
\* a new socket, connected 500 ms later; the socket it replaces is neither
\* disconnected nor closed, and its listeners stay
InitAgain ==
    /\ service.playerId = "socket"
    /\ Len(service.replaced) < MaxReplaced
    /\ service' =
          IF service.isConnecting \/ service.connected
          THEN service
          ELSE Attempt([service EXCEPT
                   !.isConnecting = TRUE, !.manager = "opening", !.backoff = 0,
                   !.viaReconnect = FALSE, !.first = "none",
                   !.transports = "websocket",
                   !.replaced = IF service.manager \in Attempting
                                THEN Append(@, [manager |-> service.manager,
                                                backoff |-> service.backoff,
                                                viaReconnect |-> service.viaReconnect,
                                                transports |-> service.transports])
                                ELSE @],
                       "websocket")
    /\ last' = In("initAgain", 0, service.isConnecting \/ service.connected)
    /\ UNCHANGED <<relayVars, scene, items>>
    /\ UNCHANGED hostVars

\* 'reconnect_attempt' of the manager of a replaced socket
ReplacedAttempt(i) ==
    /\ i \in 1..Len(service.replaced)
    /\ service.replaced[i].manager = "waiting"
    /\ service' = Attempt([service EXCEPT !.replaced[i].manager = "opening",
                                          !.reconnecting = TRUE,
                                          !.reconnectAttempts = service.replaced[i].backoff],
                          service.replaced[i].transports)
    /\ last' = In("reconnect_attempt", i, service.replaced[i].backoff)
    /\ UNCHANGED <<relayVars, scene, items>>
    /\ UNCHANGED hostVars

\* 'connect_error' of a replaced socket: its listener runs on the service, and
\* its manager goes on as Manager.reconnect() says or gives up
ReplacedError(i) ==
    /\ i \in 1..Len(service.replaced)
    /\ service.replaced[i].manager = "opening"
    /\ service.failed < MaxFailed
    /\ LET old == service.replaced[i]
           s1 == HandleTransportError([service EXCEPT !.failed = @ + 1,
                                                      !.isConnecting = FALSE])
       IN  service' =
             IF (old.viaReconnect \/ old.backoff = 0) /\ old.backoff < ReconnectionAttempts
             THEN [s1 EXCEPT !.replaced[i] = [manager |-> "waiting",
                                              backoff |-> old.backoff + 1,
                                              viaReconnect |-> TRUE,
                                              transports |-> old.transports]]
             ELSE [s1 EXCEPT !.replaced = RemoveAt(@, i),
                             !.reconnecting = IF old.viaReconnect \/ old.backoff = 0
                                              THEN FALSE ELSE @]
    /\ last' = In("connect_error", i, "TransportError")
    /\ UNCHANGED <<relayVars, scene, items>>
    /\ UNCHANGED hostVars

\* the message a sync timer's callback emits when connected: updateMovement for
\* the player, requestFullSync; syncEnemies and syncItems emit for a host only,
\* and this.connectionState.isHost is never set
TimerMessage(t) ==
    CASE t = "updateTimer" -> "playerMovement"
      [] t = "fullSyncTimer" -> "requestFullSync"
      [] OTHER -> "none"

\* the callback of one scheduled sync timer
SyncTimerFires(t) ==
    /\ service.syncIntervals[t] > 0
    /\ service' = IF TimerMessage(t) = "none"
                  THEN [service EXCEPT !.emitted = "none"]
                  ELSE Emit(service, TimerMessage(t))
    /\ last' = In("syncTimer", 0, t)
    /\ UNCHANGED <<relayVars, scene, items>>
    /\ UNCHANGED hostVars

\* the messages of the emit methods GameScene and the player objects call
GameMessages ==
    {"playerJoin", "playerMovement", "playerAttack", "playerDamage", "playerRespawn",
     "enemyUpdate", "itemUpdate", "itemPickup", "changeRoom", "requestFullSync"}

\* GameScene calls an emit method of the service; its player and level exist
\* once a connection has brought the room's seed
GameCall(msg) ==
    /\ service.playerId = "socket"
    /\ service' = Emit(service, msg)
    /\ last' = In("call", 0, msg)
    /\ UNCHANGED <<relayVars, scene, items>>
    /\ UNCHANGED hostVars

\* ------------------------------------------------------ the client's scene
\* new DungeonGenerator({seed}): seed: config.seed || Math.floor(Math.random() * 1000000)
ConfigSeed(seed, random) == IF seed = Null THEN random ELSE OrNum(seed, random)

\* GameScene.handleDungeonSeed(seed) for a dungeonSeed message the relay has
\* sent to c: nothing if the scene already uses the seed, else the seed is
\* stored and generateDungeon(seed) builds this.dungeon from
\* new DungeonGenerator({..., seed}).  generateDungeon ends with joinGame, whose
\* playerJoin message is an input of the relay's PlayerJoin.
HandleDungeonSeed(c) ==
    /\ conn[c] = "up"
    /\ \E i \in 1..Len(sent), random \in Seeds :
        /\ sent[i].ev = "dungeonSeed"
        /\ c \in sent[i].to
        /\ LET seed == sent[i].data
           IN  /\ scene[c].currentSeed # seed
               /\ scene' = [scene EXCEPT ![c] =
                               [currentSeed |-> seed,
                                dungeonSeed |-> ConfigSeed(seed, random)]]
    /\ UNCHANGED <<relayVars, last, items, service>>
    /\ UNCHANGED hostVars

\* a bug the termination claim must notice: every seed is taken for a new one
SeedAlwaysNew(b, currentSeed, seed) == TRUE

\* the test of handleDungeonSeed that lets the seed through: the later
\* GameScene returns if (this.currentSeed === seed); the earlier one goes on
\* if (!this.currentSeed || this.currentSeed !== seed), and !this.currentSeed
\* is true of undefined and of 0
SeedIsNew(b, currentSeed, seed) ==
    IF b = "legacy"
    THEN currentSeed = Null \/ currentSeed = 0 \/ currentSeed # seed
    ELSE currentSeed # seed

\* GameScene.handleDungeonSeed(seed), the whole handler, for a dungeonSeed
\* message the relay has sent to c.  A seed that is let through is stored and
\* generateDungeon(seed) runs, which ends with joinGame (playerJoin); the later
\* GameScene then calls requestFullSync unless hasSyncedAfterSeedChange is
\* still set from a seed change less than 1.2 s ago (`recent`).  last.data
\* tells the seed held before, the seed received and what the handler did.
OnDungeonSeed(c) ==
    /\ conn[c] = "up"
    /\ \E i \in 1..Len(sent), random \in Seeds, recent \in BOOLEAN :
        /\ sent[i].ev = "dungeonSeed"
        /\ c \in sent[i].to
        /\ LET seed == sent[i].data
               new == SeedIsNew(build, scene[c].currentSeed, seed)
           IN  /\ scene' = IF new
                           THEN [scene EXCEPT ![c] =
                                    [currentSeed |-> seed,
                                     dungeonSeed |-> ConfigSeed(seed, random)]]
                           ELSE scene
               /\ last' = In("dungeonSeed", c,
                             [held |-> scene[c].currentSeed,
                              seed |-> seed,
                              regenerated |-> new,
                              playerJoin |-> new,
                              requestFullSync |-> new /\ build = "current" /\ ~recent])
    /\ UNCHANGED <<relayVars, items, service>>
    /\ UNCHANGED hostVars

\* the item types handleItemsUpdated's switch creates a sprite for
CreatableTypes == {"chest", "coin", "health_potion"}

\* one turn of Object.keys(items).forEach in handleItemsUpdated: the last
\* child with the id is updated (destroyed if the entry is collected), a
\* missing one is created unless the entry is collected
ApplyEntry(children, itemData) ==
    LET found == {k \in 1..Len(children) : children[k].itemId = itemData.id}
    IN  IF found # {}
        THEN LET k == CHOOSE m \in found : \A n \in found : n <= m
             IN  IF itemData.collected /\ ~children[k].collected
                 THEN RemoveAt(children, k)
                 ELSE children
        ELSE IF ~itemData.collected /\ itemData.type \in CreatableTypes
             THEN Append(children, [itemId |-> itemData.id,
                                    itemType |-> itemData.type,
                                    collected |-> FALSE])
             ELSE children

RECURSIVE ApplyEntries(_, _, _)
ApplyEntries(children, table, i) ==
    IF i > Len(table) THEN children
    ELSE ApplyEntries(ApplyEntry(children, table[i]), table, i + 1)

\* this.items.getChildren().forEach(item => { if (!updatedItems.has(itemId)
\* && itemId) item.destroy() }): forEach visits the indices below the length
\* the array had at the start and skips an index the array no longer has;
\* destroy() takes the item out of the array being visited
RECURSIVE DestroyAbsent(_, _, _, _)
DestroyAbsent(children, k, len, updatedItems) ==
    IF k > len \/ k > Len(children) THEN children
    ELSE IF children[k].itemId \notin updatedItems
         THEN DestroyAbsent(RemoveAt(children, k), k + 1, len, updatedItems)
         ELSE DestroyAbsent(children, k + 1, len, updatedItems)

\* GameScene.handleItemsUpdated(items) on a replica (multiplayer, not host);
\* the table is given as its entries in Object.keys order
HandleItemsUpdated(table) ==
    /\ LET updatedItems == {table[i].id : i \in 1..Len(table)}
           children == ApplyEntries(items, table, 1)
       IN  items' = DestroyAbsent(children, 1, Len(children), updatedItems)
    /\ collectedSeen' = collectedSeen \cup
           {table[i].id : i \in {j \in 1..Len(table) :
               /\ table[j].collected
               /\ \E k \in 1..Len(items) :
                      items[k].itemId = table[j].id /\ ~items[k].collected}}
    /\ last' = In("itemsUpdated", 0, table)
    /\ UNCHANGED <<relayVars, scene, service>>
    /\ UNCHANGED <<net, client, build, enemies>>

\* GameScene.handleItemUpdated(itemData) on a replica: the last child with the
\* id is looked up; a missing one is not created; a found one is destroyed if
\* the update says collected and the child is not yet marked
HandleItemUpdated(itemData) ==
    /\ LET found == {k \in 1..Len(items) : items[k].itemId = itemData.id}
       IN  IF found # {}
           THEN LET k == CHOOSE m \in found : \A n \in found : n <= m
                IN  IF itemData.collected /\ ~items[k].collected
                    THEN /\ items' = RemoveAt(items, k)
                         /\ collectedSeen' = collectedSeen \cup {itemData.id}
                    ELSE UNCHANGED <<items, collectedSeen>>
           ELSE UNCHANGED <<items, collectedSeen>>
    /\ last' = In("itemUpdated", 0, itemData)
    /\ UNCHANGED <<relayVars, scene, service>>
    /\ UNCHANGED <<net, client, build, enemies>>

\* this.items.getChildren().forEach(item => { if (item.itemId === itemData.id)
\* item.destroy() }) of handleItemRemoved, over the live children array
RECURSIVE DestroyMatching(_, _, _, _)
DestroyMatching(children, k, len, id) ==
    IF k > len \/ k > Len(children) THEN children
    ELSE IF children[k].itemId = id
         THEN DestroyMatching(RemoveAt(children, k), k + 1, len, id)
         ELSE DestroyMatching(children, k + 1, len, id)

\* GameScene.handleItemRemoved(itemData) on a replica
HandleItemRemoved(itemData) ==
    /\ items' = DestroyMatching(items, 1, Len(items), itemData.id)
    /\ last' = In("itemRemoved", 0, itemData)
    /\ UNCHANGED <<relayVars, scene, service>>
    /\ UNCHANGED <<net, client, build, enemies, collectedSeen>>

\* ------------------------------------------------------- message payloads
JoinData == [room : RoomIds \cup {""}, x : {0, 200}, health : {0}]
MoveData == [x : {100, 200}]
RoomData == [room : RoomIds]

AttackData == [direction : {"down"}]
DamageData == [health : {0, 50}]
RespawnData == [x : {100}]
\* the client's own join: GameScene.roomId is 'default'
JoinDefault == [room : {"default"}, x : {0}, health : {0}]

EnemyIds == {"enemy_skeleton_1_1", "enemy_boss_2_2"}
ItemIds == {"potion_1"}
\* the entry MultiplayerService.syncEnemies builds for one enemy
EnemyEntry(id) == [id |-> id, x |-> 16, isDead |-> FALSE]
\* the tables it sends: one entry for each active enemy, keyed by its id, and
\* no message for an empty table
EnemyTables == {[id \in ids |-> EnemyEntry(id)] : ids \in (SUBSET EnemyIds) \ {{}}}
\* a single-enemy update of some fields
EnemyData == {[id |-> id, isDead |-> TRUE] : id \in EnemyIds}
\* the entry MultiplayerService.processItemForSync builds for one item
ItemEntry(id, collected) == [id |-> id, type |-> "health_potion", collected |-> collected]
ItemTables == {[id \in ids |-> ItemEntry(id, FALSE)] : ids \in SUBSET ItemIds}
ItemData == {[id |-> id, collected |-> TRUE] : id \in ItemIds}
             \cup {ItemEntry(id, FALSE) : id \in ItemIds}
PickupData == [id : ItemIds]
\* MultiplayerService.requestFullSync: {room: this.gameScene?.roomId || 'default'}
SyncRequest == [room : {"default"}]

Next ==
    \/ \E c \in Sockets : Connect(c, 0)
    \/ \E c \in Sockets, d \in JoinData : PlayerJoin(c, d)
    \/ \E c \in Sockets, d \in RoomData : ChangeRoom(c, d)
    \/ \E c \in Sockets : Disconnect(c)
    \/ \E stale \in SUBSET Sockets : ReaperTick(stale)

Spec == Init /\ [][Next]_vars

NextUpdates ==
    \/ \E c \in Sockets : Connect(c, 0)
    \/ \E c \in Sockets, d \in JoinDefault : PlayerJoin(c, d)
    \/ \E c \in Sockets, d \in MoveData : PlayerMovement(c, d)
    \/ \E c \in Sockets, d \in AttackData : PlayerAttack(c, d)
    \/ \E c \in Sockets : AttackReset(c)
    \/ \E c \in Sockets, d \in DamageData : PlayerDamage(c, d)
    \/ \E c \in Sockets, d \in RespawnData : PlayerRespawn(c, d)
    \/ \E c \in Sockets : Disconnect(c)
    \/ Sweep

SpecUpdates == Init /\ [][NextUpdates]_vars

NextEntities ==
    \/ \E c \in Sockets : Connect(c, 0)
    \/ \E c \in Sockets, d \in JoinDefault : PlayerJoin(c, d)
    \/ \E c \in Sockets : Disconnect(c)
    \/ \E stale \in SUBSET Sockets : ReaperTick(stale)
    \/ \E c \in Sockets, d \in EnemyData : EnemyUpdate(c, d)
    \/ \E c \in Sockets, d \in EnemyTables : SyncEnemies(c, d)
    \/ \E c \in Sockets, d \in ItemData : ItemUpdate(c, d)
    \/ \E c \in Sockets, d \in PickupData : ItemPickup(c, d)
    \/ \E c \in Sockets, d \in ItemTables : Unhandled(c, "syncItems", d)
    \/ \E c \in Sockets, d \in SyncRequest : Unhandled(c, "requestFullSync", d)

SpecEntities == Init /\ [][NextEntities]_vars
\* the entries of an items table a replica is sent
ReplicaEntries == {[id |-> id, type |-> "chest", collected |-> b] :
                      id \in 1..MaxItems, b \in BOOLEAN}
\* the tables: entries with distinct ids, in key order
ReplicaTables ==
    {t \in UNION {[1..n -> ReplicaEntries] : n \in 0..MaxItems} :
        \A i, j \in 1..Len(t) : t[i].id = t[j].id => i = j}

NextSeed ==
    \/ \E c \in Sockets : Connect(c, 0)
    \/ \E c \in Sockets, d \in JoinDefault : PlayerJoin(c, d)
    \/ \E c \in Sockets : HandleDungeonSeed(c)
    \/ \E c \in Sockets : Disconnect(c)

SpecSeed == Init /\ [][NextSeed]_vars

\* the state after construction, for either build of the client
InitBuilds ==
    /\ conn = [s \in Sockets |-> "new"]
    /\ subs = [s \in Sockets |-> {}]
    /\ players = <<>>
    /\ rooms = <<>>
    /\ timers = [s \in Sockets |-> 0]
    /\ activeConnections = {}
    /\ headers = [s \in Sockets |-> 0]
    /\ sent = <<>>
    /\ last = In("start", 0, 0)
    /\ scene = [s \in Sockets |-> [currentSeed |-> Null, dungeonSeed |-> Null]]
    /\ items = <<>>
    /\ service = NewService
    /\ net = NoNet
    /\ client = [s \in Sockets |-> NewClient]
    /\ build \in Builds
    /\ enemies = NoEnemies
    /\ collectedSeen = {}

NextSameSeed ==
    \/ \E c \in Sockets : Connect(c, 0)
    \/ \E c \in Sockets, d \in JoinDefault : PlayerJoin(c, d)
    \/ \E c \in Sockets : OnDungeonSeed(c)
    \/ \E c \in Sockets : Disconnect(c)

SpecSameSeed == InitBuilds /\ [][NextSameSeed]_vars

NextItems == \E t \in ReplicaTables : HandleItemsUpdated(t)

SpecItems == Init /\ [][NextItems]_vars

\* the itemRemoved messages a replica is sent
RemovedData == [id : 1..MaxItems]

NextCollected ==
    \/ \E t \in ReplicaTables : HandleItemsUpdated(t)
    \/ \E d \in ReplicaEntries : HandleItemUpdated(d)
    \/ \E d \in RemovedData : HandleItemRemoved(d)

SpecCollected == Init /\ [][NextCollected]_vars

NextService ==
    \/ ServiceInit
    \/ EngineOpen
    \/ SocketConnect
    \/ TransportClose
    \/ ReconnectAttempt
    \/ ConnectError
    \/ ReconnectTimerFires
    \/ \E t \in SyncTimers : SyncTimerFires(t)
    \/ \E msg \in GameMessages : GameCall(msg)

SpecService == Init /\ [][NextService]_vars

NextReinit ==
    \/ ServiceInit
    \/ EngineOpen
    \/ SocketConnect
    \/ TransportClose
    \/ ReconnectAttempt
    \/ ConnectError
    \/ ReconnectTimerFires
    \/ InitAgain
    \/ \E i \in 1..MaxReplaced : ReplacedAttempt(i)
    \/ \E i \in 1..MaxReplaced : ReplacedError(i)

SpecReinit == Init /\ [][NextReinit]_vars

\* the x-client-id values clients send; socket ids are not among them
LogicalIds == {MaxSockets + 1}

NextDuplicates ==
    \/ \E c \in Sockets, h \in LogicalIds \cup {0} : Connect(c, h)
    \/ \E c \in Sockets, d \in JoinData : PlayerJoin(c, d)
    \/ \E c \in Sockets, d \in JoinData : Dropped(c, "playerJoin", d)
    \/ \E c \in Sockets, d \in EnemyTables : SyncEnemies(c, d)
    \/ \E c \in Sockets, d \in EnemyTables : Dropped(c, "syncEnemies", d)
    \/ \E c \in Sockets : Disconnect(c)

SpecDuplicates == Init /\ [][NextDuplicates]_vars

\* ------------------------------------------------ the clients and the host
\* MultiplayerService.isHost of src/multiplayer/MultiplayerService.js:
\* connectionState.isHost || (gameScene && gameScene.isHost) ||
\* Object.keys(otherPlayers).length === 0; nothing assigns gameScene.isHost
IsHostLegacy(cl) == cl.isHost \/ cl.otherPlayers = {}

\* MultiplayerService.isHost of the later file: connectionState.isHost === true
IsHostCurrent(cl) == cl.isHost = TRUE

IsHost(b, cl) == IF b = "legacy" THEN IsHostLegacy(cl) ELSE IsHostCurrent(cl)

\* socket.on('currentPlayers'): every id but the socket's own goes to
\* otherPlayers; the later file empties otherPlayers first
OnCurrentPlayers(b, c, cl, data) ==
    LET others == DOMAIN data \ {c}
    IN  [cl EXCEPT !.otherPlayers = IF b = "legacy" THEN @ \cup others ELSE others]

\* socket.on('newPlayer')
OnNewPlayer(cl, data) == [cl EXCEPT !.otherPlayers = @ \cup {data.id}]

\* socket.on('playerDisconnected')
OnPlayerDisconnected(cl, data) == [cl EXCEPT !.otherPlayers = @ \ {data.id}]

\* socket.on('hostStatus'), which only the later file registers
OnHostStatus(b, cl, data) ==
    IF b = "legacy" THEN cl ELSE [cl EXCEPT !.isHost = data.isHost]

\* socket.on('roomPlayers'): the later file replaces otherPlayers by the ids
\* of the table but the socket's own; the earlier file assigns the table as it
\* is, the socket's own entry included
OnRoomPlayers(b, c, cl, data) ==
    [cl EXCEPT !.otherPlayers = IF b = "legacy" THEN DOMAIN data ELSE DOMAIN data \ {c}]

\* the listener of the client for message m; a message without a listener,
\* as 'playerLeft' in both files, changes nothing
Handle(b, c, cl, m) ==
    CASE m.ev = "currentPlayers" -> OnCurrentPlayers(b, c, cl, m.data)
      [] m.ev = "newPlayer" -> OnNewPlayer(cl, m.data)
      [] m.ev = "roomPlayers" -> OnRoomPlayers(b, c, cl, m.data)
      [] m.ev = "playerDisconnected" -> OnPlayerDisconnected(cl, m.data)
      [] m.ev = "hostStatus" -> OnHostStatus(b, cl, m.data)
      [] OTHER -> cl

\* socket.on('connect') of the client: connected, and joinGame emits playerJoin
ClientConnect(c) ==
    /\ conn[c] \in {"up", "dup"}
    /\ ~client[c].joined
    /\ client' = [client EXCEPT ![c].connected = TRUE, ![c].joined = TRUE,
                                 ![c].joins = @ + 1]
    /\ last' = In("onConnect", c, 0)
    /\ UNCHANGED <<relayVars, net, build, enemies, scene, items, service, collectedSeen>>

\* the playerJoin the client's 'connect' handler emitted reaches the relay
JoinGame(c, d) ==
    /\ client[c].joined
    /\ c \notin DOMAIN players
    /\ PlayerJoin(c, d)

\* the oldest message on its way to client c reaches its listener
Deliver(c) ==
    /\ client[c].connected
    /\ net.q[c] # <<>>
    /\ client' = [client EXCEPT ![c] = Handle(build, c, @, Head(net.q[c]))]
    /\ net' = [net EXCEPT !.q[c] = Tail(@)]
    /\ last' = In("deliver", c, Head(net.q[c]).ev)
    /\ UNCHANGED <<relayVars, build, enemies, scene, items, service, collectedSeen>>

\* socket.on('disconnect') of the client; what was on its way is lost
ClientDisconnect(c) ==
    /\ conn[c] = "gone"
    /\ client[c].connected
    /\ client' = [client EXCEPT ![c].connected = FALSE]
    /\ net' = [net EXCEPT !.q[c] = <<>>]
    /\ last' = In("onDisconnect", c, 0)
    /\ UNCHANGED <<relayVars, build, enemies, scene, items, service, collectedSeen>>

\* a bug the emission claim must notice: the host test is left out
MayEmitAnyone(b, cl) == cl.connected

\* syncEnemies, syncItems, syncGameState: return unless connected, emit only
\* if (this.isHost())
MayEmit(b, cl) == cl.connected /\ IsHost(b, cl)

\* the sync methods of a build; the earlier file has no syncGameState
SyncMethods(b) ==
    IF b = "legacy" THEN {"syncEnemies", "syncItems"}
    ELSE {"syncEnemies", "syncItems", "syncGameState"}

\* GameScene or a sync timer calls one of the sync methods of client c
CallSync(c, method) ==
    /\ method \in SyncMethods(build)
    /\ client' = [client EXCEPT ![c].emitted =
                     IF MayEmit(build, client[c]) THEN method ELSE "none"]
    /\ last' = In("sync", c, method)
    /\ UNCHANGED <<relayVars, net, build, enemies, scene, items, service, collectedSeen>>

\* the room a client's initial player data names
JoinHost == [room : RoomIds, x : {0}, health : {0}]

InitHost ==
    /\ conn = [s \in Sockets |-> "new"]
    /\ subs = [s \in Sockets |-> {}]
    /\ players = <<>>
    /\ rooms = <<>>
    /\ timers = [s \in Sockets |-> 0]
    /\ activeConnections = {}
    /\ headers = [s \in Sockets |-> 0]
    /\ sent = <<>>
    /\ last = In("start", 0, 0)
    /\ scene = [s \in Sockets |-> [currentSeed |-> Null, dungeonSeed |-> Null]]
    /\ items = <<>>
    /\ service = NewService
    /\ net = EmptyNet
    /\ client = [s \in Sockets |-> NewClient]
    /\ build \in Builds
    /\ enemies = NoEnemies
    /\ collectedSeen = {}

NextHost ==
    \/ \E c \in Sockets : Connect(c, 0)
    \/ \E c \in Sockets : ClientConnect(c)
    \/ \E c \in Sockets, d \in JoinHost : JoinGame(c, d)
    \/ \E c \in Sockets : Deliver(c)
    \/ \E c \in Sockets : Disconnect(c)
    \/ \E c \in Sockets : ClientDisconnect(c)
    \/ \E c \in Sockets, method \in {"syncEnemies", "syncItems", "syncGameState"} :
           CallSync(c, method)

SpecHost == InitHost /\ [][NextHost]_vars

\* every message the relay listens to and the reaper, with one payload for
\* each kind of message
NextRelay ==
    \/ \E c \in Sockets : Connect(c, 0)
    \/ \E c \in Sockets, d \in JoinDefault : PlayerJoin(c, d)
    \/ \E c \in Sockets : PlayerMovement(c, [x |-> 100])
    \/ \E c \in Sockets, d \in AttackData : PlayerAttack(c, d)
    \/ \E c \in Sockets : AttackReset(c)
    \/ \E c \in Sockets : PlayerDamage(c, [health |-> 0])
    \/ \E c \in Sockets, d \in RespawnData : PlayerRespawn(c, d)
    \/ \E c \in Sockets : EnemyUpdate(c, [id |-> "enemy_boss_2_2", isDead |-> TRUE])
    \/ \E c \in Sockets :
           SyncEnemies(c, [id \in {"enemy_boss_2_2"} |-> EnemyEntry(id)])
    \/ \E c \in Sockets, d \in PickupData : ItemUpdate(c, ItemEntry(d.id, FALSE))
    \/ \E c \in Sockets, d \in PickupData : ItemPickup(c, d)
    \/ \E c \in Sockets : ChangeRoom(c, [room |-> "default"])
    \/ \E stale \in SUBSET Sockets : ReaperTick(stale)

SpecRelay == Init /\ [][NextRelay]_vars

\* the messages, the disconnect and the reaper that write the players table
NextOwners ==
    \/ \E c \in Sockets : Connect(c, 0)
    \/ \E c \in Sockets, d \in JoinDefault : PlayerJoin(c, d)
    \/ \E c \in Sockets : PlayerMovement(c, [x |-> 100])
    \/ \E c \in Sockets, d \in AttackData : PlayerAttack(c, d)
    \/ \E c \in Sockets : AttackReset(c)
    \/ \E c \in Sockets : PlayerDamage(c, [health |-> 0])
    \/ \E c \in Sockets, d \in RespawnData : PlayerRespawn(c, d)
    \/ \E c \in Sockets : ChangeRoom(c, [room |-> "crypt"])
    \/ \E c \in Sockets : Disconnect(c)
    \/ \E stale \in SUBSET Sockets : ReaperTick(stale)

SpecOwners == Init /\ [][NextOwners]_vars

\* no message is on its way to a client
Settled == \A s \in Sockets : net.q[s] = <<>>

\* a tick of the reaper that evicts the players of `stale`, at a time when the
\* messages of the earlier steps have arrived
Eviction(stale) ==
    /\ Settled
    /\ stale # {}
    /\ ReaperTick(stale)

\* MultiplayerService.changeRoom(roomId) of a connected client, received by
\* the relay; rooms are changed once the messages on their way have arrived
ChangeRoomCall(c, d) ==
    /\ Settled
    /\ client[c].connected
    /\ client[c].joined
    /\ c \in DOMAIN players
    /\ ChangeRoom(c, d)

NextLeave ==
    \/ \E c \in Sockets : Connect(c, 0)
    \/ \E c \in Sockets : ClientConnect(c)
    \/ \E c \in Sockets, d \in JoinHost : JoinGame(c, d)
    \/ \E c \in Sockets : Deliver(c)
    \/ \E c \in Sockets, d \in RoomData : ChangeRoomCall(c, d)
    \/ \E c \in Sockets : Disconnect(c)
    \/ \E stale \in SUBSET Sockets : Eviction(stale)
    \/ \E c \in Sockets : ClientDisconnect(c)

SpecLeave == InitHost /\ [][NextLeave]_vars

\* ------------------------------------------- the enemies of host and replica
\* new Enemy(...): isDead and playedDeathAnim are false; the id is the one the
\* constructor derives from type and position, or the key of the server's table;
\* the constructor does not assign serverControlled, which update() reads as
\* false
NewEnemy(id, isDead) ==
    [id |-> id, isDead |-> isDead, playedDeathAnim |-> FALSE, serverControlled |-> FALSE]

\* the orders in which distinct enemy ids can stand in a list
RECURSIVE IdSeqs(_)
IdSeqs(ids) ==
    IF ids = {} THEN {<<>>}
    ELSE UNION {{<<id>> \o rest : rest \in IdSeqs(ids \ {id})} : id \in ids}

SpawnLists == UNION {IdSeqs(ids) : ids \in SUBSET EnemyIds}

\* this.enemies.find(e => e.id === enemyId || e.enemyId === enemyId): the
\* position of the first such enemy, 0 if there is none
RECURSIVE FindEnemy(_, _, _)
FindEnemy(list, id, i) ==
    IF i > Len(list) THEN 0
    ELSE IF list[i].id = id THEN i
    ELSE FindEnemy(list, id, i + 1)

\* MultiplayerService.syncEnemies: one entry for each enemy of the list, under
\* its id, in the order of the list
RECURSIVE BuildEnemyTable(_, _)
BuildEnemyTable(list, i) ==
    IF i > Len(list) THEN <<>>
    ELSE <<[id |-> list[i].id, isDead |-> list[i].isDead]>> \o BuildEnemyTable(list, i + 1)

TableIds(table) == {table[i].id : i \in 1..Len(table)}

\* Enemy.updateFromServer on the enemy at position i: applyAnimationFromServerData
\* plays the death animation of an enemy that was dead already, then isDead is
\* taken from the data, and a dead enemy whose animation has not played dies:
\* Enemy.die splices it out of scene.enemies
UpdateFromServer(list, i, data) ==
    LET e == list[i]
        played == e.playedDeathAnim \/ e.isDead
        e1 == [e EXCEPT !.playedDeathAnim = played, !.isDead = data.isDead,
                        !.serverControlled = TRUE]
    IN  IF e1.isDead /\ ~played
        THEN RemoveAt(list, i)
        ELSE [list EXCEPT ![i] = e1]

\* the body of Object.keys(enemies).forEach for one entry
ApplyEnemyEntry(list, data) ==
    LET i == FindEnemy(list, data.id, 1)
    IN  IF i > 0 THEN UpdateFromServer(list, i, data)
        ELSE Append(list, [NewEnemy(data.id, data.isDead) EXCEPT !.serverControlled = TRUE])

RECURSIVE ApplyEnemyEntries(_, _, _)
ApplyEnemyEntries(list, table, k) ==
    IF k > Len(table) THEN list
    ELSE ApplyEnemyEntries(ApplyEnemyEntry(list, table[k]), table, k + 1)

\* a bug the round-trip claim must notice: enemies the table does not name stay
KeepAbsent(list, table) == list

\* this.enemies = this.enemies.filter(...): enemies the table does not name are
\* destroyed and leave the list
RemoveAbsent(list, table) ==
    LET Named(e) == e.id \in TableIds(table)
    IN  SelectSeq(list, Named)

\* spawnEnemies() of the host's or of the replica's scene
SpawnEnemies(who, ids) ==
    /\ enemies' = [enemies EXCEPT ![who] = [k \in 1..Len(ids) |-> NewEnemy(ids[k], FALSE)]]
    /\ last' = In("spawnEnemies", 0, who)
    /\ UNCHANGED <<relayVars, net, client, build, scene, items, service, collectedSeen>>

\* Enemy.die of the i-th enemy of a scene, as takeDamage calls it
EnemyDies(who, i) ==
    /\ i \in 1..Len(enemies[who])
    /\ enemies' = [enemies EXCEPT ![who] = RemoveAt(@, i)]
    /\ last' = In("die", 0, who)
    /\ UNCHANGED <<relayVars, net, client, build, scene, items, service, collectedSeen>>

\* the host's sync timer: if (this.enemies.length > 0) syncEnemies(this.enemies);
\* the relay passes the table on as currentEnemies
HostSyncEnemies ==
    /\ Len(enemies.host) > 0
    /\ Len(enemies.inflight) < MaxInFlight
    /\ enemies' = [enemies EXCEPT !.inflight = Append(@, BuildEnemyTable(enemies.host, 1))]
    /\ last' = In("syncEnemies", 0, BuildEnemyTable(enemies.host, 1))
    /\ UNCHANGED <<relayVars, net, client, build, scene, items, service, collectedSeen>>

\* GameScene.handleEnemiesUpdated of the replica for the oldest table on its way
HandleEnemiesUpdated ==
    /\ enemies.inflight # <<>>
    /\ LET table == Head(enemies.inflight)
       IN  /\ enemies' = [enemies EXCEPT
                  !.replica = RemoveAbsent(ApplyEnemyEntries(@, table, 1), table),
                  !.inflight = Tail(@)]
           /\ last' = In("enemiesUpdated", 0, [table |-> table, before |-> enemies.replica])
    /\ UNCHANGED <<relayVars, net, client, build, scene, items, service, collectedSeen>>

\* the enemyUpdated messages a replica is sent: the relay's entry for one enemy
UpdatedEnemies == {[id |-> id, x |-> 16, isDead |-> b] : id \in EnemyIds, b \in BOOLEAN}

\* GameScene.handleEnemyUpdated(enemyData) on a replica: an enemy the list has
\* is updated by updateFromServer; for any other id the handler calls
\* handleEnemiesUpdated({[enemyData.id]: enemyData}), the bulk method with a
\* table of this one entry, which creates the enemy and then filters the list
HandleEnemyUpdated(enemyData) ==
    /\ LET i == FindEnemy(enemies.replica, enemyData.id, 1)
           table == <<enemyData>>
       IN  enemies' = [enemies EXCEPT !.replica =
                          IF i > 0
                          THEN UpdateFromServer(@, i, enemyData)
                          ELSE RemoveAbsent(ApplyEnemyEntries(@, table, 1), table)]
    /\ last' = In("enemyUpdated", 0, [entry |-> enemyData, before |-> enemies.replica])
    /\ UNCHANGED <<relayVars, net, client, build, scene, items, service, collectedSeen>>

NextEnemies ==
    \/ \E who \in {"host", "replica"}, ids \in SpawnLists : SpawnEnemies(who, ids)
    \/ \E who \in {"host", "replica"}, i \in 1..Cardinality(EnemyIds) : EnemyDies(who, i)
    \/ HostSyncEnemies
    \/ HandleEnemiesUpdated

SpecEnemies == Init /\ [][NextEnemies]_vars

NextEnemyUpdates ==
    \/ \E who \in {"host", "replica"}, ids \in SpawnLists : SpawnEnemies(who, ids)
    \/ \E who \in {"host", "replica"}, i \in 1..Cardinality(EnemyIds) : EnemyDies(who, i)
    \/ HostSyncEnemies
    \/ HandleEnemiesUpdated
    \/ \E d \in UpdatedEnemies : HandleEnemyUpdated(d)

SpecEnemyUpdates == Init /\ [][NextEnemyUpdates]_vars

\* Enemy.update(): return if isDead; a server-controlled enemy only plays its
\* animation; for any other the AI below runs (its target is the scene's
\* player): aggro, chase, attack
RunsAI(e) == ~e.isDead /\ ~e.serverControlled

\* one frame of GameScene.update on a client: enemy.update() for every enemy
\* of the list that is not dead; last.data.ai names the enemies whose AI ran
UpdateFrame(who) ==
    /\ last' = In("update", 0,
                  [who |-> who,
                   ai |-> {enemies[who][i].id :
                              i \in {k \in 1..Len(enemies[who]) : RunsAI(enemies[who][k])}}])
    /\ UNCHANGED enemies
    /\ UNCHANGED <<relayVars, net, client, build, scene, items, service, collectedSeen>>

NextFrames ==
    \/ \E who \in {"host", "replica"}, ids \in SpawnLists : SpawnEnemies(who, ids)
    \/ \E who \in {"host", "replica"}, i \in 1..Cardinality(EnemyIds) : EnemyDies(who, i)
    \/ HostSyncEnemies
    \/ HandleEnemiesUpdated
    \/ \E who \in {"host", "replica"} : UpdateFrame(who)

SpecFrames == Init /\ [][NextFrames]_vars

\* a bug the host claim must notice: the relayed tables are applied by the
\* host as well
AppliesAlways(b, cl) == TRUE

\* if (!multiplayerService.isHost()) of handleEnemiesUpdated and
\* handleItemsUpdated, and the early return on isHost() of handleEnemyUpdated,
\* handleItemUpdated and handleItemRemoved
AppliesRelayed(b, cl) == ~IsHost(b, cl)

\* a handler of the scene that returns without touching its lists
SceneSkips(ev, d) ==
    /\ last' = In(ev, 0, d)
    /\ UNCHANGED <<relayVars, net, client, build, enemies, scene, items, service,
                   collectedSeen>>

\* GameScene.handleEnemiesUpdated for a table the relay sent as currentEnemies
SceneEnemiesUpdated(table) ==
    /\ enemies' = [enemies EXCEPT
           !.replica = RemoveAbsent(ApplyEnemyEntries(@, table, 1), table)]
    /\ last' = In("enemiesUpdated", 0, [table |-> table, before |-> enemies.replica])
    /\ UNCHANGED <<relayVars, net, client, build, scene, items, service, collectedSeen>>

\* the GameScene of client c is handed one of the relay's entity messages by
\* its MultiplayerService: enemies.replica is its enemy list and items its
\* item group; `applied` is what the handler does when it does not return early
SceneReceives(c, ev, d, applied) ==
    /\ client[c].connected
    /\ IF AppliesRelayed(build, client[c]) THEN applied ELSE SceneSkips(ev, d)

\* the entity messages the scene is sent: tables that are empty or hold one
\* entry, and single entries, for one item id and one enemy id
SentEnemies == {d \in UpdatedEnemies : d.id = "enemy_boss_2_2"}
SentEnemyTables == {<<>>} \cup {<<d>> : d \in SentEnemies}
SentItems == {d \in ReplicaEntries : d.id = 1}
SentItemTables == {<<>>} \cup {<<d>> : d \in SentItems}

\* the connects, joins and departures of two clients, and the entity messages
\* and the spawn of the scene of client 1
NextScene ==
    \/ \E c \in Sockets : Connect(c, 0)
    \/ \E c \in Sockets : ClientConnect(c)
    \/ \E c \in Sockets, d \in JoinDefault : JoinGame(c, d)
    \/ \E c \in Sockets : Deliver(c)
    \/ \E c \in Sockets : Disconnect(c)
    \/ \E c \in Sockets : ClientDisconnect(c)
    \/ \E ids \in {l \in SpawnLists : Len(l) <= 1} : SpawnEnemies("replica", ids)
    \/ \E t \in SentEnemyTables :
           SceneReceives(1, "enemiesUpdated", t, SceneEnemiesUpdated(t))
    \/ \E d \in SentEnemies :
           SceneReceives(1, "enemyUpdated", d, HandleEnemyUpdated(d))
    \/ \E t \in SentItemTables :
           SceneReceives(1, "itemsUpdated", t, HandleItemsUpdated(t))
    \/ \E d \in SentItems :
           SceneReceives(1, "itemUpdated", d, HandleItemUpdated(d))
    \/ \E d \in SentItems :
           SceneReceives(1, "itemRemoved", d, HandleItemRemoved(d))

SpecScene == InitHost /\ [][NextScene]_vars

\* ------------------------------------------- the join and seed exchange
\* the playerJoin messages of c the relay has handled: each pushes the id onto
\* the roster of the room it names
JoinsReceived(c) ==
    Cardinality({p \in UNION {{r} \X DOMAIN rooms[r].players : r \in DOMAIN rooms} :
                    rooms[p[1]].players[p[2]] = c})

\* a playerJoin the client has emitted reaches the relay; the scene's roomId
\* is the same in every playerJoin of a client.  Each client is in a room of
\* its own, so that a roster of MaxRoster ids has room for its joins; the
\* join of another client sends this one no dungeonSeed.
JoinArrives(c, d) ==
    /\ client[c].joins > JoinsReceived(c)
    /\ c \in DOMAIN players => d.room = players[c].room
    /\ \A o \in DOMAIN players : o # c => players[o].room # d.room
    /\ PlayerJoin(c, d)

\* the oldest dungeonSeed on its way to c reaches GameScene.handleDungeonSeed:
\* a seed that is let through is stored and generateDungeon(seed) runs, which
\* ends with joinGame, one more playerJoin
SeedArrives(c) ==
    /\ client[c].connected
    /\ net.q[c] # <<>>
    /\ \E random \in Seeds :
        LET seed == Head(net.q[c]).data
            new == SeedIsNew(build, scene[c].currentSeed, seed)
        IN  /\ scene' = IF new
                        THEN [scene EXCEPT ![c] =
                                 [currentSeed |-> seed,
                                  dungeonSeed |-> ConfigSeed(seed, random)]]
                        ELSE scene
            /\ client' = IF new THEN [client EXCEPT ![c].joins = @ + 1] ELSE client
            /\ last' = In("dungeonSeed", c,
                          [held |-> scene[c].currentSeed, seed |-> seed,
                           regenerated |-> new])
    /\ net' = [net EXCEPT !.q[c] = Tail(@)]
    /\ UNCHANGED <<relayVars, build, enemies, items, service, collectedSeen>>

\* the state after construction, for either build, with the relay's
\* dungeonSeed messages followed to the clients
InitExchange ==
    /\ conn = [s \in Sockets |-> "new"]
    /\ subs = [s \in Sockets |-> {}]
    /\ players = <<>>
    /\ rooms = <<>>
    /\ timers = [s \in Sockets |-> 0]
    /\ activeConnections = {}
    /\ headers = [s \in Sockets |-> 0]
    /\ sent = <<>>
    /\ last = In("start", 0, 0)
    /\ scene = [s \in Sockets |-> [currentSeed |-> Null, dungeonSeed |-> Null]]
    /\ items = <<>>
    /\ service = NewService
    /\ net = SeedNet
    /\ client = [s \in Sockets |-> NewClient]
    /\ build \in Builds
    /\ enemies = NoEnemies
    /\ collectedSeen = {}

\* the clients whose exchange is followed: one for each room
ExchangeClients == {c \in Sockets : c <= Cardinality(RoomIds)}

NextExchange ==
    \/ \E c \in Sockets : Connect(c, 0)
    \/ \E c \in ExchangeClients : ClientConnect(c)
    \/ \E c \in ExchangeClients, d \in JoinHost : JoinArrives(c, d)
    \/ \E c \in ExchangeClients : SeedArrives(c)

SpecExchange == InitExchange /\ [][NextExchange]_vars

\* a message on an open socket.io connection is delivered and its listener
\* runs: no playerJoin and no dungeonSeed stays on its way for ever
SpecExchangeFair ==
    /\ SpecExchange
    /\ \A c \in Sockets : WF_vars(\E d \in JoinHost : JoinArrives(c, d))
    /\ \A c \in Sockets : WF_vars(SeedArrives(c))

\* no playerJoin is on its way to the relay and no dungeonSeed to a client
ExchangeQuiet ==
    \A c \in Sockets : client[c].joins = JoinsReceived(c) /\ net.q[c] = <<>>

\* ------------------------------------------------- claims on the registry
\* the messages of one kind emitted by the last handler
Emitted(ev) == {sent[i] : i \in {j \in 1..Len(sent) : sent[j].ev = ev}}

\* C1: in every state the length of a room's roster equals the number of
\* clients whose PlayerState names that room, so a client that joins twice is
\* counted once.
C1_RosterCountsMembers ==
    \A r \in DOMAIN rooms : Len(rooms[r].players) = Cardinality(Members(r))

\* C2: after every handler no room with an empty roster is left in `rooms`.
C2_NoEmptyRoom ==
    \A r \in DOMAIN rooms : Len(rooms[r].players) > 0

\* C3: no step changes the seed of a room that exists before and after it,
\* every playerJoin is answered with a dungeonSeed message, and every
\* dungeonSeed message carries the seed of the sender's room.
C3_SeedNeverChanges ==
    [][ /\ \A r \in DOMAIN rooms \cap DOMAIN rooms' :
              rooms'[r].seed = rooms[r].seed
        /\ last'.ev = "playerJoin" =>
              \E i \in 1..Len(sent') : sent'[i].ev = "dungeonSeed"
        /\ \A i \in 1..Len(sent') :
              sent'[i].ev = "dungeonSeed" =>
                 /\ last'.ev \in {"playerJoin", "changeRoom"}
                 /\ sent'[i].to = {last'.from}
                 /\ sent'[i].data = rooms'[players'[last'.from].room].seed
      ]_vars

\* a second client has joined a room that was rolled a non-zero seed, and has
\* been sent it
C3_Witness ==
    /\ last.ev = "playerJoin"
    /\ last.from \in DOMAIN players
    /\ Cardinality(Members(players[last.from].room)) = 2
    /\ \E m \in Emitted("dungeonSeed") : m.data = MaxSeed

\* C5: the currentPlayers snapshot sent to a joiner holds exactly the
\* PlayerStates of its room, and newPlayer goes to exactly the other members.
C5_SnapshotIsTheRoom ==
    last.ev = "playerJoin" =>
        LET c == last.from
            r == players[c].room
        IN  /\ \A m \in Emitted("currentPlayers") :
                  /\ m.to = {c}
                  /\ DOMAIN m.data = Members(r)
                  /\ \A q \in Members(r) : m.data[q] = players[q]
            /\ \A m \in Emitted("newPlayer") : m.to = Members(r) \ {c}
\* ----------------------------------------- claims on the player broadcasts
Broadcasts == {"playerMoved", "playerAttacked", "playerHealthUpdate",
               "playerDied", "playerRespawned"}
Updates == {"playerMovement", "playerAttack", "playerDamage", "playerRespawn"}

\* C6: what the relay sends out for a movement, attack, damage or respawn
\* message reaches the other members of the sender's room and never the
\* sender.
C6_NotBackToSender ==
    \A i \in 1..Len(sent) :
        sent[i].ev \in Broadcasts =>
            /\ last.from \notin sent[i].to
            /\ Members(players[last.from].room) \ {last.from} \subseteq sent[i].to

\* C7: a movement, attack, damage or respawn message from a registered client
\* stamps its lastUpdated, so that its idle time is zero once the handler has
\* run (and a client sending one at least every five minutes is never
\* evicted).
C7_EveryUpdateStamps ==
    (last.ev \in Updates /\ last.from \in DOMAIN players) =>
        players[last.from].idle = 0

\* ------------------------------------------- claims on the entity tables
\* C8: once syncEnemies with table T from a member of room R is processed,
\* R's enemy table is exactly T, and one currentEnemies message carrying T
\* has gone to every other member of R and not to the sender.
C8_TableIsTheLastSync ==
    (last.ev = "syncEnemies" /\ last.from \in DOMAIN players) =>
        LET c == last.from
            r == players[c].room
        IN  /\ r \in DOMAIN rooms
            /\ rooms[r].enemies = last.data
            /\ Len(sent) = 1
            /\ sent[1].ev = "currentEnemies"
            /\ sent[1].data = last.data
            /\ c \notin sent[1].to
            /\ Members(r) \ {c} \subseteq sent[1].to

\* a table with one enemy has been synchronised into a room that has another
\* member, who is sent it
C8_Witness ==
    /\ last.ev = "syncEnemies"
    /\ last.from \in DOMAIN players
    /\ Cardinality(DOMAIN last.data) = 1
    /\ Members(players[last.from].room) \ {last.from} # {}
    /\ Len(sent) = 1
    /\ sent[1].to = Members(players[last.from].room) \ {last.from}

\* C9: once syncItems with an items table from a member of room R is
\* processed, the table is R's item table and a currentItems message with it
\* has gone to every other member of R.
C9_ItemsTableStored ==
    (last.ev = "syncItems" /\ last.from \in DOMAIN players) =>
        LET c == last.from
            r == players[c].room
        IN  /\ rooms[r].items = last.data
            /\ \E m \in Emitted("currentItems") :
                  /\ m.data = last.data
                  /\ Members(r) \ {c} \subseteq m.to
\* --------------------------------------------------- claims on the clients
\* C4: a client that joined a room after its creator and has handled the
\* dungeonSeed message it was sent holds the room's seed, and the generator
\* of its dungeon uses that seed.
C4_JoinerUsesRoomSeed ==
    \A c \in DOMAIN players :
        LET r == players[c].room
        IN  (/\ r \in DOMAIN rooms
             /\ rooms[r].players[1] # c
             /\ scene[c].currentSeed # Null) =>
                /\ scene[c].currentSeed = rooms[r].seed
                /\ scene[c].dungeonSeed = rooms[r].seed

\* C10: once a replica has applied an items table, every local item's id is
\* in the table and every entry of the table that is not collected has a
\* local item.
C10_ReplicaMatchesTable ==
    last.ev = "itemsUpdated" =>
        /\ \A k \in 1..Len(items) :
              \E i \in 1..Len(last.data) : last.data[i].id = items[k].itemId
        /\ \A i \in 1..Len(last.data) :
              ~last.data[i].collected =>
                  \E k \in 1..Len(items) : items[k].itemId = last.data[i].id
\* ---------------------------------------------------- claims on the reaper
\* C11: after a reaper sweep no PlayerState older than the threshold is left,
\* and every player the sweep announced with playerDisconnected was announced
\* once and is gone from the player table and from every roster.
C11_SweepRemovesStale ==
    last.ev = "sweep" =>
        /\ \A c \in DOMAIN players : players[c].idle <= InactivityTimeout
        /\ \A i \in 1..Len(sent) :
              sent[i].ev = "playerDisconnected" =>
                 /\ sent[i].data.id \notin DOMAIN players
                 /\ \A j \in 1..Len(sent) : sent[j].data = sent[i].data => j = i
                 /\ \A r \in DOMAIN rooms :
                       IndexOf(rooms[r].players, sent[i].data.id) = 0
\* ----------------------------------------- claims on the client's connection
\* C12: between two successful connects the delays handleTransportError
\* schedules never decrease from one to the next and never exceed 10000 ms.
C12_DelaysNonDecreasing ==
    /\ service.prevDelay <= service.delay
    /\ service.delay <= 10000

\* C13: right after the handler of a successful connect or reconnect the
\* attempt counter is 0 and no custom reconnect timer is pending.
C13_ConnectResetsBackoff ==
    last.ev \in {"connect", "reconnect"} =>
        /\ service.reconnectAttempts = 0
        /\ service.reconnectTimer = 0

\* C14: once 15 connection attempts in a row have failed the client is in
\* offline mode, with a local player id and the background probe timer set.
C14_OfflineAfterMaxAttempts ==
    service.failed >= MaxReconnectAttempts =>
        /\ service.offlineMode
        /\ service.playerId = "offline"
        /\ service.offlineModeReconnectTimer
\* ------------------------------------------------ claims on the full sync
\* C15: a requestFullSync from a joined client is answered with the seed,
\* the players, the enemies and the items of its room, sent to that client.
C15_FullSyncAnswered ==
    (last.ev = "requestFullSync" /\ last.from \in DOMAIN players) =>
        \A ev \in {"dungeonSeed", "currentPlayers", "currentEnemies", "currentItems"} :
            \E m \in Emitted(ev) : last.from \in m.to

\* --------------------------------------- claims on duplicate connections
\* C16: a socket taken for a duplicate holds no PlayerState and no place in a
\* roster, no step it causes changes the player table or a room, no two
\* accepted connections claim one client id, and the client ids held are
\* those of the accepted connections that are still open, so that a client id
\* is free again once its connection has disconnected.
C16_DuplicateIsInert ==
    /\ [](/\ \A c \in Sockets :
                conn[c] = "dup" =>
                   /\ c \notin DOMAIN players
                   /\ \A r \in DOMAIN rooms : IndexOf(rooms[r].players, c) = 0
          /\ \A c1, c2 \in Sockets :
                (conn[c1] = "up" /\ conn[c2] = "up" /\ c1 # c2) =>
                    ClientId(headers, c1) # ClientId(headers, c2)
          /\ activeConnections = {ClientId(headers, c) : c \in {s \in Sockets : conn[s] = "up"}})
    /\ [][(last'.from \in Sockets /\ conn[last'.from] = "dup") =>
              (players' = players /\ rooms' = rooms)]_vars

\* a second connection claiming an active client id was taken for a duplicate
\* and has sent playerJoin
C16_Witness ==
    /\ last.ev = "playerJoin"
    /\ conn[last.from] = "dup"
    /\ \E c \in Sockets : conn[c] = "up" /\ headers[c] = headers[last.from]
\* ------------------------------------------------------ claims on the host
\* C17: in every state at most one of the clients joined to a room has
\* isHost() true.
C17_AtMostOneHost ==
    \A r \in RoomIds :
        Cardinality({c \in Members(r) : IsHost(build, client[c])}) <= 1

\* C18: a connected client that is the only member of its room and has handled
\* every message the relay sent it has isHost() true.
C18_SoleMemberIsHost ==
    \A c \in DOMAIN players :
        (Members(players[c].room) = {c} /\ client[c].connected /\ net.q[c] = <<>>)
            => IsHost(build, client[c])

\* C19: a call of syncEnemies, syncItems or syncGameState puts a message on
\* the socket only if the client is connected and isHost() is true.
C19_OnlyHostEmits ==
    last.ev = "sync" =>
        (client[last.from].emitted # "none" =>
            (client[last.from].connected /\ IsHost(build, client[last.from])))

\* a host has emitted syncEnemies while another connected client is a replica
C19_Witness ==
    /\ last.ev = "sync"
    /\ client[last.from].emitted = "syncEnemies"
    /\ \E r \in Sockets \ {last.from} :
          client[r].connected /\ ~IsHost(build, client[r])
C21_NoTimersAfterDisconnect ==
    last.ev = "disconnect" => \A t \in SyncTimers : service.syncIntervals[t] = 0

\* C30: in every state at most one timer of each of the four kinds is
\* scheduled.
C30_OneTimerOfEachKind ==
    \A t \in SyncTimers : service.syncIntervals[t] <= 1

\* a connect whose startSyncIntervals found the timers of an earlier connect
C30_Witness ==
    /\ last.ev = "connect"
    /\ service.restarted
    /\ \A t \in SyncTimers : service.syncIntervals[t] = 1

\* C24: the first game message emitted since the socket was told to connect
\* is playerJoin.
C24_JoinIsFirst ==
    service.first \in {"none", "playerJoin"}

\* C29: a call of an emit method, or the callback of a sync timer, in a state
\* where connectionState.connected is false puts no message on the socket, and
\* the 'disconnect' listener leaves the scene's seed, items and enemies alone.
C29_NoEmitWhileDisconnected ==
    /\ []((last.ev \in {"call", "syncTimer"} /\ ~service.connected)
              => service.emitted = "none")
    /\ [][last'.ev = "disconnect" => UNCHANGED <<scene, items, enemies>>]_vars

\* an emit method was called after the connection was lost, while the sync
\* timers of the lost connection are still scheduled
C29_Witness ==
    /\ last.ev = "call"
    /\ ~service.connected
    /\ service.manager \in {"waiting", "opening"}
    /\ service.syncIntervals["updateTimer"] > 0
\* C23: in every state at most one socket of the client is being connected.
C23_OneAttempt ==
    (IF service.manager \in Attempting THEN 1 ELSE 0)
        + Cardinality({i \in 1..Len(service.replaced) :
                          service.replaced[i].manager \in Attempting}) <= 1
\* C25: once a replica has destroyed its item of some id because a message
\* said collected, no later items table, item update or item removal makes it
\* hold an item of that id again
C25_CollectedStaysGone ==
    \A k \in 1..Len(items) : items[k].itemId \notin collectedSeen

\* the members of the room player c leaves in this step, c aside, that are
\* still players after it and whose clients are connected
Remaining(c) ==
    {m \in Sockets \ {c} : /\ m \in DOMAIN players'
                           /\ players'[m].room = players[c].room
                           /\ client[m].connected}

\* a message of this step goes to m and m's listener for it deletes c from
\* otherPlayers
ToldOfDeparture(m, c) ==
    \E i \in 1..Len(sent') :
        /\ m \in sent'[i].to
        /\ c \notin Handle(build, m, [client[m] EXCEPT !.otherPlayers = @ \cup {c}],
                           sent'[i]).otherPlayers

\* player c leaves its room in this step
Departs(c) ==
    /\ c \in DOMAIN players
    /\ c \notin DOMAIN players' \/ players'[c].room # players[c].room

\* C26: when a player leaves a room by disconnect, eviction or changeRoom,
\* every other member of the room is sent a message its client handles by
\* deleting the player from otherPlayers
C26_DepartureHandled ==
    [][\A c \in Sockets : Departs(c) => \A m \in Remaining(c) : ToldOfDeparture(m, c)]_vars

\* the part of C26 about disconnect and eviction, where the player's entry is
\* deleted
C26_ByDisconnectOrEviction ==
    [][\A c \in Sockets : (Departs(c) /\ c \notin DOMAIN players')
                             => \A m \in Remaining(c) : ToldOfDeparture(m, c)]_vars

\* C27: a client that holds seed S and receives dungeonSeed S again does not
\* regenerate its level, sends no playerJoin and requests no full sync
C27_SameSeedIsIgnored ==
    (last.ev = "dungeonSeed" /\ last.data.held = last.data.seed)
        => /\ ~last.data.regenerated
           /\ ~last.data.playerJoin
           /\ ~last.data.requestFullSync

\* the same for the later GameScene alone
C27_SameSeedIsIgnoredNow ==
    (last.ev = "dungeonSeed" /\ last.data.held = last.data.seed /\ build = "current")
        => /\ ~last.data.regenerated
           /\ ~last.data.playerJoin
           /\ ~last.data.requestFullSync

\* C28: on a client that is not host no frame runs the AI of an enemy of its
\* list, the enemies it spawned itself before the first table arrived included
C28_ReplicaRunsNoAI ==
    (last.ev = "update" /\ last.data.who = "replica") => last.data.ai = {}

\* the same for the enemies the replica got from a table or that a table has
\* updated: after a table is applied, no enemy of the list is left to the AI
C28_NoAIAfterTable ==
    last.ev = "enemiesUpdated" =>
        \A i \in 1..Len(enemies.replica) : ~RunsAI(enemies.replica[i])

\* C31: every executed retry of the custom reconnection path starts its attempt
\* with the other transport first than the attempt before it, so consecutive
\* executed retries alternate between websocket-first and polling-first
C31_RetriesAlternate ==
    (last.ev = "reconnectTimer" /\ last.data = "retry")
        => /\ service.used # service.usedBefore
           /\ service.retryFirst # service.retryBefore

\* C34: in every state, for every PlayerState of the player table, the room
\* its room field names is in the registry and that room's roster has the
\* player's id
C34_PlayersAreListed ==
    \A c \in DOMAIN players :
        /\ players[c].room \in DOMAIN rooms
        /\ IndexOf(rooms[players[c].room].players, c) # 0

\* a player has left by disconnect, which deleted its empty room, while a
\* player of another room stays in the table
C34_Witness ==
    /\ last.ev = "disconnect"
    /\ DOMAIN players # {}
    /\ \E r \in RoomIds : r \notin DOMAIN rooms
    /\ \E c \in Sockets : conn[c] = "gone"

\* C33: a single-enemy update for an id the replica does not hold makes the
\* replica hold that enemy and leaves every other enemy of its list present and
\* unchanged
C33_OthersKept ==
    (last.ev = "enemyUpdated" /\ FindEnemy(last.data.before, last.data.entry.id, 1) = 0)
        => /\ FindEnemy(enemies.replica, last.data.entry.id, 1) # 0
           /\ \A i \in 1..Len(last.data.before) :
                  \E j \in 1..Len(enemies.replica) : enemies.replica[j] = last.data.before[i]

\* C32: the PlayerState of a client is created, changed or deleted only by a
\* step of its own connection (its messages, the timer its playerAttack set,
\* its disconnect) or by the reaper; no message of another client touches it
C32_OnlyOwnMessages ==
    [][\A c \in Sockets :
          (\/ (c \in DOMAIN players) # (c \in DOMAIN players')
           \/ /\ c \in DOMAIN players
              /\ c \in DOMAIN players'
              /\ players[c] # players'[c])
              => (last'.from = c \/ last'.ev = "sweep")]_vars

\* a client's damage message has been applied to its own PlayerState while
\* another client's PlayerState is in the table, untouched
C32_Witness ==
    /\ last.ev = "playerDamage"
    /\ last.from \in DOMAIN players
    /\ players[last.from].health = 0
    /\ \E c \in DOMAIN players : c # last.from /\ players[c].health = 100

\* C39: a movement, attack, damage, respawn, enemyUpdate, syncEnemies,
\* itemUpdate, itemPickup or changeRoom message from a connection that has no
\* PlayerState leaves players and rooms unchanged and emits nothing
C39_StrangersChangeNothing ==
    [][(/\ last'.ev \in {"playerMovement", "playerAttack", "playerDamage",
                         "playerRespawn", "enemyUpdate", "syncEnemies",
                         "itemUpdate", "itemPickup", "changeRoom"}
        /\ last'.from \notin DOMAIN players)
           => /\ players' = players
              /\ rooms' = rooms
              /\ sent' = <<>>]_vars

\* a connection the reaper has evicted (it still holds its socket.io room but
\* has no PlayerState) has sent an itemUpdate while another player's room has
\* an empty item table; no entry was created and nothing was emitted
C39_Witness ==
    /\ last.ev = "itemUpdate"
    /\ conn[last.from] = "up"
    /\ subs[last.from] # {}
    /\ last.from \notin DOMAIN players
    /\ sent = <<>>
    /\ \E r \in DOMAIN rooms : rooms[r].players # <<>> /\ DOMAIN rooms[r].items = {}

\* C35: whenever no message is on its way to a client, every room with a
\* connected member has a member whose isHost() is true
C35_SomeMemberIsHost ==
    Settled =>
        \A r \in DOMAIN rooms :
            (\E c \in Members(r) : client[c].connected)
                => \E c \in Members(r) : IsHost(build, client[c])

\* C35, the case of the earlier MultiplayerService file with two members: the
\* one that was host while alone is still host once the second has joined
C35_HostSurvivesJoin ==
    (build = "legacy" /\ Settled) =>
        \A r \in DOMAIN rooms :
            (Len(rooms[r].players) = 2 /\ \A c \in Members(r) : client[c].connected)
                => IsHost("legacy", client[rooms[r].players[1]])

\* C37: on a client whose isHost() is true an incoming currentEnemies,
\* enemyUpdated, currentItems, itemUpdated or itemRemoved message leaves the
\* enemy list and the item group of its scene as they were
C37_HostKeepsLists ==
    [][(/\ last'.ev \in {"enemiesUpdated", "enemyUpdated", "itemsUpdated",
                         "itemUpdated", "itemRemoved"}
        /\ IsHost(build, client[1]))
           => /\ enemies'.replica = enemies.replica
              /\ items' = items]_vars

\* the scene of a client that is host has been handed an itemRemoved for an
\* item its group holds, and the item is still there
C37_Witness ==
    /\ last.ev = "itemRemoved"
    /\ client[1].connected
    /\ IsHost(build, client[1])
    /\ \E k \in 1..Len(items) : items[k].itemId = last.data.id
    /\ enemies.replica # <<>>

====
